---- MODULE Spec2Model ----
(***************************************************************************)
(* Ledger writer (ad.py) and competitor filler (manual.py) of the Amazon   *)
(* automation backend, working on one country tab of one segment's         *)
(* spreadsheet.                                                            *)
(*                                                                         *)
(* A cell value is a sequence of tokens: a decimal digit, a sign, a space, *)
(* or an opaque piece of text (which holds no digit, sign or space).  The  *)
(* empty sequence is the empty string / the empty cell.  A tab is a        *)
(* sequence of rows (1-based, as the A1 notation); every row past the end  *)
(* of the sequence is blank.  A row is a function on 0..ROW_WIDTH-1 of     *)
(* cells, a cell holding its value/formula (v) and whether it carries the  *)
(* black-background/white-font highlight (hl).                             *)
(***************************************************************************)
EXTENDS Integers, Sequences, FiniteSets, TLC

\* ---------------------------------------------------------------- bounds
MaxInitRows == 2
MaxProducts == 2
MaxInitNo == 1
MaxWriteFails == 1
MaxManualRow == 4
MaxRuns == 2
MaxBlocks == 2
MaxCountries == 2
MaxAbsent == 1
MaxMissing == 1
MaxSubmissions == 2
MaxRequestCountries == 2
MaxGroups == 2
MaxInitPages == 1
MaxCalls == 2

\* ------------------------------------------------------ program constants
ROW_WIDTH == 32
COL_NO == 0
COL_CATEGORY == 1
COL_PRODUCTS == 2
COL_CURRENT_MREV == 3
COL_MONTHLY_MARKETCAP_1 == 4
COL_PPU_20 == 17
COL_PPU_15 == 21
COL_PPU_10 == 25
COL_REV_20 == 19
COL_REV_15 == 23
COL_REV_10 == 27
ORIGINAL_COL_UNITS_20 == 18
ORIGINAL_COL_UNITS_15 == 22
ORIGINAL_COL_UNITS_10 == 26
COL_YOUR_COMPETITOR == 6
COL_COMP_MREV == 7
ORIGINAL_COL_YOUR_PRICE == 9
ORIGINAL_COL_FBA_FEES == 11
ORIGINAL_COL_STORAGE_FEES == 13
MAX_RETRIES == 8

FILLED_COLS ==
  {COL_NO, COL_CATEGORY, COL_PRODUCTS, COL_CURRENT_MREV, COL_MONTHLY_MARKETCAP_1,
   COL_PPU_20, ORIGINAL_COL_UNITS_20, COL_REV_20, COL_PPU_15, ORIGINAL_COL_UNITS_15,
   COL_REV_15, COL_PPU_10, ORIGINAL_COL_UNITS_10, COL_REV_10}

Segments == {"vendor", "existing_seller", "new_seller"}
VALID_COUNTRIES == {"US", "UK", "CAN", "AUS", "DE", "UAE"}

Cols == 0 .. (ROW_WIDTH - 1)
Empty == << >>

\* ------------------------------------------------- str(int) and int(str)
Digits == <<"0", "1", "2", "3", "4", "5", "6", "7", "8", "9">>
DigitSet == {Digits[i] : i \in 1 .. 10}

DigitVal(t) == CHOOSE d \in 0 .. 9 : Digits[d + 1] = t

RECURSIVE StrNat(_)
StrNat(n) == IF n < 10 THEN <<Digits[n + 1]>>
             ELSE Append(StrNat(n \div 10), Digits[(n % 10) + 1])

\* Python str() of an int
Str(n) == IF n < 0 THEN <<"-">> \o StrNat(0 - n) ELSE StrNat(n)

RECURSIVE LStrip(_)
LStrip(s) == IF s # << >> /\ Head(s) = " " THEN LStrip(Tail(s)) ELSE s

RECURSIVE RStrip(_)
RStrip(s) == IF s # << >> /\ s[Len(s)] = " " THEN RStrip(SubSeq(s, 1, Len(s) - 1)) ELSE s

Strip(s) == RStrip(LStrip(s))

RECURSIVE NatOf(_)
NatOf(s) == IF s = << >> THEN 0
            ELSE 10 * NatOf(SubSeq(s, 1, Len(s) - 1)) + DigitVal(s[Len(s)])

\* Python int(str(v).strip()): ok = FALSE stands for the ValueError
ParseInt(s) ==
  LET t == Strip(s)
      signed == t # << >> /\ t[1] \in {"+", "-"}
      body == IF signed THEN Tail(t) ELSE t
      good == body # << >> /\ \A i \in 1 .. Len(body) : body[i] \in DigitSet
  IN IF good
       THEN [ok |-> TRUE, val |-> IF signed /\ t[1] = "-" THEN 0 - NatOf(body) ELSE NatOf(body)]
       ELSE [ok |-> FALSE, val |-> 0]

\* ------------------------------------------------------------ sheet model
BlankCell == [v |-> Empty, hl |-> FALSE]
BlankRow == [c \in Cols |-> BlankCell]

\* the row at 1-based position r of a tab
RowAt(sh, r) == IF r \in 1 .. Len(sh) THEN sh[r] ELSE BlankRow

\* values.get of column A: the API returns the rows up to the last one
\* whose column A is not empty, so len(values) is that row's position
ColumnAUsed(sh) ==
  LET filled == {r \in 1 .. Len(sh) : sh[r][COL_NO].v # Empty}
  IN IF filled = {} THEN 0 ELSE CHOOSE r \in filled : \A q \in filled : q <= r

_first_empty_row(sh) == ColumnAUsed(sh) + 1

\* insertDimension ROWS [idx0, idx0+1), inheritFromBefore = False
InsertBlankRow(sh, idx0) ==
  IF idx0 >= Len(sh) THEN sh
  ELSE SubSeq(sh, 1, idx0) \o <<BlankRow>> \o SubSeq(sh, idx0 + 1, Len(sh))

\* the tab grown with blank rows so that position r is inside the sequence
Grown(sh, r) ==
  [q \in 1 .. (IF r > Len(sh) THEN r ELSE Len(sh)) |-> RowAt(sh, q)]

\* values.update of one cell, USER_ENTERED: the value replaces whatever the
\* cell held (an empty string clears it)
SetValue(sh, r, c, val) ==
  [Grown(sh, r) EXCEPT ![r][c].v = val]

\* repeatCell of the black background / white font on the given cells of
\* the row at 0-based index row0
_format_cells_black_bg_white_font(sh, row0, col_indices) ==
  LET g == Grown(sh, row0 + 1)
  IN [g EXCEPT ![row0 + 1] =
        [c \in Cols |-> IF c \in col_indices THEN [@[c] EXCEPT !.hl = TRUE] ELSE @[c]]]

\* ------------------------------------------------------------------ ad.py
RECURSIVE _esc(_)
_esc(s) == IF s = << >> THEN << >>
           ELSE (IF Head(s) = "\"" THEN <<"\"", "\"">> ELSE <<Head(s)>>) \o _esc(Tail(s))

_hyper(url, text) ==
  IF url # Empty
    THEN <<"=HYPERLINK(\"">> \o _esc(url) \o <<"\",\"">>
           \o _esc(IF text # Empty THEN text ELSE <<"link">>) \o <<"\")">>
    ELSE Empty

\* UnitsAffectedCols with AUS left out of the existing-seller exception list
UnitsAffectedCols_NoAus(seller_type, country) ==
  LET base == <<ORIGINAL_COL_UNITS_20, ORIGINAL_COL_UNITS_15, ORIGINAL_COL_UNITS_10>>
      delta == IF seller_type = "vendor"
                 THEN (IF country \notin {"US", "CAN"} THEN 3 ELSE 2)
               ELSE IF seller_type = "existing_seller"
                 THEN (IF country \notin {"US", "CAN"} THEN 1 ELSE 0)
               ELSE (IF country \notin {"US", "CAN", "AUS"} THEN 0 - 1 ELSE 0 - 2)
  IN [i \in 1 .. 3 |-> base[i] + delta]

\* the unit-count column list AFFECTED_COLS as lines 368-391 leave it
UnitsAffectedCols(seller_type, country) ==
  LET base == <<ORIGINAL_COL_UNITS_20, ORIGINAL_COL_UNITS_15, ORIGINAL_COL_UNITS_10>>
      delta == IF seller_type = "vendor"
                 THEN (IF country \notin {"US", "CAN"} THEN 3 ELSE 2)
               ELSE IF seller_type = "existing_seller"
                 THEN (IF country \notin {"US", "CAN", "AUS"} THEN 1 ELSE 0)
               ELSE (IF country \notin {"US", "CAN", "AUS"} THEN 0 - 1 ELSE 0 - 2)
  IN [i \in 1 .. 3 |-> base[i] + delta]

\* units of a projection: << >> when the key is missing, <<n>> otherwise
UnitStr(u) == IF u = << >> THEN Empty ELSE Str(u[1])

\* _build_row_from_product without the new-seller clearing of lines 417-423
_build_row_from_product_NoClear(prod, seller_type, country) ==
  LET A == UnitsAffectedCols(seller_type, country)
      COL_UNITS_10 == A[1]
      COL_UNITS_15 == A[2]
      COL_UNITS_20 == A[3]
      r0 == [c \in Cols |-> Empty]
      r1 == [r0 EXCEPT ![COL_CATEGORY] =
               IF prod.categoryUrl # Empty THEN _hyper(prod.categoryUrl, prod.keyword)
               ELSE prod.keyword]
      r2 == [r1 EXCEPT ![COL_PRODUCTS] =
               IF prod.url # Empty THEN _hyper(prod.url, prod.productname)
               ELSE prod.productname]
      r3 == [r2 EXCEPT ![COL_CURRENT_MREV] = prod.mrev]
      r4 == [r3 EXCEPT ![COL_MONTHLY_MARKETCAP_1] = prod.catrev]
      r5 == [r4 EXCEPT ![COL_UNITS_20] = UnitStr(prod.low)]
      r6 == [r5 EXCEPT ![COL_UNITS_15] = UnitStr(prod.base)]
      r7 == [r6 EXCEPT ![COL_UNITS_10] = UnitStr(prod.high)]
  IN r7

_build_row_from_product(prod, seller_type, country) ==
  LET A == UnitsAffectedCols(seller_type, country)
      COL_UNITS_10 == A[1]
      COL_UNITS_15 == A[2]
      COL_UNITS_20 == A[3]
      r0 == [c \in Cols |-> Empty]
      r1 == [r0 EXCEPT ![COL_CATEGORY] =
               IF prod.categoryUrl # Empty THEN _hyper(prod.categoryUrl, prod.keyword)
               ELSE prod.keyword]
      r2 == [r1 EXCEPT ![COL_PRODUCTS] =
               IF prod.url # Empty THEN _hyper(prod.url, prod.productname)
               ELSE prod.productname]
      r3 == [r2 EXCEPT ![COL_CURRENT_MREV] = prod.mrev]
      r4 == [r3 EXCEPT ![COL_MONTHLY_MARKETCAP_1] = prod.catrev]
      r5 == [r4 EXCEPT ![COL_UNITS_20] = UnitStr(prod.low)]
      r6 == [r5 EXCEPT ![COL_UNITS_15] = UnitStr(prod.base)]
      r7 == [r6 EXCEPT ![COL_UNITS_10] = UnitStr(prod.high)]
      n1 == [r7 EXCEPT ![COL_PRODUCTS + 1] = r7[COL_PRODUCTS]]
      n2 == [n1 EXCEPT ![COL_CURRENT_MREV] = Empty]
      n3 == [n2 EXCEPT ![COL_UNITS_10] = Empty]
      n4 == [n3 EXCEPT ![COL_UNITS_15] = Empty]
      n5 == [n4 EXCEPT ![COL_UNITS_20] = Empty]
  IN IF seller_type = "new_seller" THEN n5 ELSE r7

\* _insert_duplicate_of_last_row inserting above the last filled row and
\* copying from the row now below, as _insert_row_and_copy_template_format
\* places its row
_insert_duplicate_above_last_row(sh) ==
  LET first_empty_row1 == _first_empty_row(sh)
      last_filled_row1 == first_empty_row1 - 1
      g == Grown(InsertBlankRow(sh, last_filled_row1 - 1), last_filled_row1 + 1)
  IN IF last_filled_row1 < 1
       THEN [sheet |-> InsertBlankRow(sh, 0), row |-> 1]
       ELSE [sheet |-> [g EXCEPT ![last_filled_row1] = g[last_filled_row1 + 1]],
             row |-> last_filled_row1]

\* _insert_duplicate_of_last_row placing the copy right under the header
\* row, every data row moving down by one
_insert_duplicate_under_header(sh) ==
  LET first_empty_row1 == _first_empty_row(sh)
      last_filled_row1 == first_empty_row1 - 1
      g == Grown(InsertBlankRow(sh, 1), last_filled_row1 + 1)
  IN IF last_filled_row1 < 1
       THEN [sheet |-> InsertBlankRow(sh, 0), row |-> 1]
       ELSE [sheet |-> [g EXCEPT ![2] = g[last_filled_row1 + 1]], row |-> 2]

_insert_duplicate_of_last_row(sh) ==
  LET first_empty_row1 == _first_empty_row(sh)
      last_filled_row1 == first_empty_row1 - 1
      new_row1 == last_filled_row1 + 1
      g == Grown(InsertBlankRow(sh, last_filled_row1), new_row1)
  IN IF last_filled_row1 < 1
       THEN [sheet |-> InsertBlankRow(sh, 0), row |-> 1]
       ELSE [sheet |-> [g EXCEPT ![new_row1] = g[last_filled_row1]], row |-> new_row1]

RECURSIVE LastNum(_, _)
LastNum(sh, r) ==
  IF r = 0 THEN 0
  ELSE IF sh[r][COL_NO].v # Empty /\ ParseInt(sh[r][COL_NO].v).ok
    THEN ParseInt(sh[r][COL_NO].v).val
    ELSE LastNum(sh, r - 1)

\* _next_no_value without the guard on a negative last number
_next_no_value_NoGuard(sh) ==
  LET last_num == LastNum(sh, ColumnAUsed(sh))
  IN last_num + 1

\* _next_no_value returning the last number as it is
_next_no_value_NoIncrement(sh) ==
  LET last_num == LastNum(sh, ColumnAUsed(sh))
  IN IF last_num >= 1 THEN last_num ELSE 1

_next_no_value(sh) ==
  LET last_num == LastNum(sh, ColumnAUsed(sh))
  IN IF last_num >= 0 THEN last_num + 1 ELSE 1

\* col_to_value of write_results_to_country_tabs, lines 482-491
ColToValue(row_vals, next_no) ==
  [c \in {COL_NO} \cup {k \in Cols : row_vals[k] # Empty} |->
     IF row_vals[c] # Empty THEN row_vals[c] ELSE Str(next_no)]

\* values.batchUpdate of the non-empty entries; nothing is sent when there
\* is none
_write_partial_cells(sh, row1, col_to_value) ==
  LET data == {c \in DOMAIN col_to_value : col_to_value[c] # Empty}
      g == Grown(sh, row1)
  IN IF data = {} THEN sh
     ELSE [g EXCEPT ![row1] =
             [c \in Cols |-> IF c \in data THEN [@[c] EXCEPT !.v = col_to_value[c]] ELSE @[c]]]

\* -------------------------------------------------------------- manual.py
\* PricingAffectedCols with the vendor storage-fee shift of the US/CAN branch
\* used for every country
PricingAffectedCols_VendorTwo(cur, seller_type, country) ==
  IF seller_type = "existing_seller"
    THEN (IF country \notin {"US", "CAN", "AUS"}
            THEN <<cur[1] + 1 - 1, cur[2] + 1, cur[3] + 1>>
            ELSE cur)
  ELSE IF seller_type = "vendor"
    THEN (IF country \in {"US", "CAN"}
            THEN <<cur[1], cur[2] + 2, cur[3] + 2>>
            ELSE <<cur[1], cur[2], cur[3] + 2>>)
  ELSE (IF country \notin {"US", "CAN", "AUS"}
          THEN <<cur[1] - 1 - 1, cur[2] - 1, cur[3] - 1>>
          ELSE <<cur[1] - 2, cur[2] - 2, cur[3] - 2>>)

\* PricingAffectedCols without the line that takes the existing-seller price
\* column back
PricingAffectedCols_NoPriceBack(cur, seller_type, country) ==
  IF seller_type = "existing_seller"
    THEN (IF country \notin {"US", "CAN", "AUS"}
            THEN <<cur[1] + 1, cur[2] + 1, cur[3] + 1>>
            ELSE cur)
  ELSE IF seller_type = "vendor"
    THEN (IF country \in {"US", "CAN"}
            THEN <<cur[1], cur[2] + 2, cur[3] + 2>>
            ELSE <<cur[1], cur[2], cur[3] + 3>>)
  ELSE (IF country \notin {"US", "CAN", "AUS"}
          THEN <<cur[1] - 1 - 1, cur[2] - 1, cur[3] - 1>>
          ELSE <<cur[1] - 2, cur[2] - 2, cur[3] - 2>>)

\* AFFECTED_COLS of find_competitor_data, lines 436-461, computed from the
\* current values cur = <<COL_YOUR_PRICE, COL_FBA_FEES, COL_STORAGE_FEES>>
\* of the module globals
PricingAffectedCols(cur, seller_type, country) ==
  IF seller_type = "existing_seller"
    THEN (IF country \notin {"US", "CAN", "AUS"}
            THEN <<cur[1] + 1 - 1, cur[2] + 1, cur[3] + 1>>
            ELSE cur)
  ELSE IF seller_type = "vendor"
    THEN (IF country \in {"US", "CAN"}
            THEN <<cur[1], cur[2] + 2, cur[3] + 2>>
            ELSE <<cur[1], cur[2], cur[3] + 3>>)
  ELSE (IF country \notin {"US", "CAN", "AUS"}
          THEN <<cur[1] - 1 - 1, cur[2] - 1, cur[3] - 1>>
          ELSE <<cur[1] - 2, cur[2] - 2, cur[3] - 2>>)

\* corresp_nums = None
None == << >>

\* one remote call of fill_in_row_with_new_values_for_country: it is the
\* (calls+1)-th of the invocation and raises when that is the failing one
Raises(st, failAt) == st.calls + 1 = failAt

\* the for loop of lines 230-317 from its i-th item on (i is 1-based here,
\* the enumerate index is i - 1).  st.cell and st.raw are the locals
\* cell_range and raw_val: cell = -1 and raw = FALSE while unassigned.
RECURSIVE FillLoop(_, _, _)
FillLoop(a, st, i) ==
  IF st.raised \/ i > Len(a.column_indices) THEN st
  ELSE
    LET col_idx == a.column_indices[i]
        has == col_idx < ROW_WIDTH /\ a.row[col_idx] # Empty
        cell1 == IF has THEN col_idx ELSE st.cell
        plain == has /\ a.corresp_nums = None
        raw1 == IF has /\ ~plain THEN TRUE ELSE st.raw
        called == [st EXCEPT !.calls = @ + 1, !.cell = cell1, !.raw = raw1]
    IN IF plain
         THEN (IF Raises(st, a.failAt)
                 THEN [called EXCEPT !.raised = TRUE]
                 ELSE FillLoop(a, [called EXCEPT !.sh = SetValue(st.sh, a.row_number, col_idx, a.row[col_idx])], i + 1))
       ELSE IF a.seller_type = "vendor" /\ i - 1 = 1
         THEN FillLoop(a, [st EXCEPT !.cell = cell1, !.raw = raw1], i + 1)
       ELSE IF ~raw1
         THEN [st EXCEPT !.raised = TRUE]
       ELSE IF Raises(st, a.failAt)
         THEN [called EXCEPT !.raised = TRUE]
       ELSE FillLoop(a, [called EXCEPT !.sh = SetValue(st.sh, a.row_number, cell1, a.corresp_nums[i])], i + 1)

\* fill_in_row_with_new_values_for_country; failAt numbers the remote call
\* that raises (0: none).  The result is the tab and whether the call raised.
fill_in_row_with_new_values_for_country(sh, row, column_indices, row_number, seller_type, corresp_nums, failAt) ==
  LET a == [row |-> row, column_indices |-> column_indices, row_number |-> row_number,
            seller_type |-> seller_type, corresp_nums |-> corresp_nums, failAt |-> failAt]
      row_exists == failAt # 2 /\ RowAt(sh, row_number)[COL_NO].v # Empty
      created == [Grown(sh, row_number) EXCEPT ![row_number] =
                    [c \in Cols |-> [@[c] EXCEPT !.v = Empty]]]
      sh1 == IF row_exists THEN sh ELSE created
      calls1 == IF row_exists THEN 2 ELSE 3
      st0 == [sh |-> sh1, cell |-> 0 - 1, raw |-> FALSE, calls |-> calls1, raised |-> FALSE]
      st1 == FillLoop(a, st0, 1)
      cols == {column_indices[k] : k \in 1 .. Len(column_indices)}
  IN IF failAt = 1 THEN [sheet |-> sh, raised |-> TRUE]
     ELSE IF ~row_exists /\ failAt = 3 THEN [sheet |-> sh, raised |-> TRUE]
     ELSE IF st1.raised THEN [sheet |-> st1.sh, raised |-> TRUE]
     ELSE IF Raises(st1, failAt) THEN [sheet |-> st1.sh, raised |-> TRUE]
     ELSE [sheet |-> _format_cells_black_bg_white_font(st1.sh, row_number - 1, cols), raised |-> FALSE]

\* ------------------------------------------------------------------ inputs
\* column A of a tab before the run: empty, a header text or a number
AVals == {Empty, <<"No.">>} \cup {Str(n) : n \in (0 - 1) .. MaxInitNo}

InitColumnAs == UNION {[1 .. n -> AVals] : n \in 0 .. MaxInitRows}

\* a tab whose column A is a and whose other cells hold formulas/values
MkSheet(a) ==
  [r \in 1 .. Len(a) |->
     [c \in Cols |-> [v |-> IF c = COL_NO THEN a[r] ELSE <<"old">> \o Str(r), hl |-> FALSE]]]

InitSheets == {MkSheet(a) : a \in InitColumnAs}

\* product entries of a run (the second one is the sample of ad.py main())
Products ==
  { [productname |-> <<"p1">>, url |-> <<"u1">>, keyword |-> <<"k1">>,
     categoryUrl |-> <<"c1">>, mrev |-> <<"m1">>, catrev |-> <<"r1">>,
     low |-> <<63>>, base |-> <<96>>, high |-> <<135>>],
    [productname |-> <<"p", "\"", "2">>, url |-> Empty, keyword |-> <<"k2">>,
     categoryUrl |-> Empty, mrev |-> Empty, catrev |-> <<"r2">>,
     low |-> << >>, base |-> <<7>>, high |-> << >>] }

\* records the competitor picker can return
Competitors ==
  { [product_details |-> <<"comp">>, url |-> <<"cu">>, parent_level_revenue |-> <<"cm">>],
    [product_details |-> <<"comp">>, url |-> Empty, parent_level_revenue |-> <<"cm">>],
    [product_details |-> <<"comp">>, url |-> <<"cu">>, parent_level_revenue |-> Empty] }

\* (text, number) triples <<price, fba fee, storage fee>> taken from the
\* normalized profitability metrics; a number is empty when the text held
\* no digit
Metrics ==
  { [text |-> <<<<"$", "pr">>, <<"$", "fb">>, <<"$", "st">>>>,
     num |-> <<<<"pr">>, <<"fb">>, <<"st">>>>],
    [text |-> <<<<"$", "pr">>, <<"$">>, <<"$", "st">>>>,
     num |-> <<<<"pr">>, Empty, <<"st">>>>] }

\* ------------------------------------------------------------------- state
VARIABLES
  sellerType, country, sheet,
  wpc, nprod, product, row_vals, new_row1, next_no, AFFECTED_COLS_ad,
  additional_run_data, noLog, hadNo,
  mpc, runs, outer, attempt, competitor, mrow,
  COL_YOUR_PRICE, COL_FBA_FEES, COL_STORAGE_FEES, AFFECTED_COLS_manual,
  results, wfails, startCols, pmCalls, pmFails,
  json_results, bi, ci, pi, book, env, posLog, metaFailed,
  subs, running, queue,
  raw, value_text, number_only, revenue, rpc, events, clicked,
  product_url, code, kpc, pages, ppc, ptry, pcalls,
  SPREADSHEET_ID_ad, SPREADSHEET_ID_manual, comp_cols, spc

writerVars == <<wpc, nprod, product, row_vals, new_row1, next_no, AFFECTED_COLS_ad,
                additional_run_data, noLog, hadNo>>
manualVars == <<mpc, runs, outer, attempt, competitor, mrow,
                COL_YOUR_PRICE, COL_FBA_FEES, COL_STORAGE_FEES, AFFECTED_COLS_manual,
                results, wfails, startCols, pmCalls, pmFails>>
runVars == <<json_results, bi, ci, pi, book, env, posLog, metaFailed>>
submitVars == <<subs, running, queue>>
revVars == <<raw, value_text, number_only, revenue, rpc, events, clicked>>
profitVars == <<product_url, code, kpc, pages, ppc, ptry, pcalls>>
segVars == <<SPREADSHEET_ID_ad, SPREADSHEET_ID_manual, comp_cols, spc>>
vars == <<sellerType, country, sheet, writerVars, manualVars, runVars, submitVars, revVars,
          profitVars, segVars>>

EmptyRowVals == [c \in Cols |-> Empty]
NoProduct ==
  [productname |-> Empty, url |-> Empty, keyword |-> Empty, categoryUrl |-> Empty,
   mrev |-> Empty, catrev |-> Empty, low |-> << >>, base |-> << >>, high |-> << >>]
NoCompetitor == [product_details |-> Empty, url |-> Empty, parent_level_revenue |-> Empty]

\* the parts of the state a specification does not exercise
ManualIdle ==
  /\ mpc = "idle"
  /\ runs = << >>
  /\ outer = 0
  /\ attempt = 0
  /\ competitor = NoCompetitor
  /\ mrow = EmptyRowVals
  /\ COL_YOUR_PRICE = ORIGINAL_COL_YOUR_PRICE
  /\ COL_FBA_FEES = ORIGINAL_COL_FBA_FEES
  /\ COL_STORAGE_FEES = ORIGINAL_COL_STORAGE_FEES
  /\ AFFECTED_COLS_manual = <<ORIGINAL_COL_YOUR_PRICE, ORIGINAL_COL_FBA_FEES, ORIGINAL_COL_STORAGE_FEES>>
  /\ results = << >>
  /\ wfails = 0
  /\ startCols = << >>
  /\ pmCalls = 0
  /\ pmFails = 0

RunIdle ==
  /\ json_results = << >>
  /\ bi = 0
  /\ ci = 0
  /\ pi = 0
  /\ book = << >>
  /\ env = {}
  /\ posLog = << >>
  /\ metaFailed = FALSE

SubmitIdle ==
  /\ subs = << >>
  /\ running = FALSE
  /\ queue = << >>

RevIdle ==
  /\ raw = << >>
  /\ value_text = << >>
  /\ number_only = << >>
  /\ revenue = << >>
  /\ rpc = "idle"
  /\ events = << >>
  /\ clicked = FALSE

ProfitIdle ==
  /\ product_url = << >>
  /\ code = << >>
  /\ kpc = "idle"
  /\ pages = 0
  /\ ppc = "idle"
  /\ ptry = 0
  /\ pcalls = 0

SegIdle ==
  /\ SPREADSHEET_ID_ad = "unset"
  /\ SPREADSHEET_ID_manual = "unset"
  /\ comp_cols = << >>
  /\ spc = "idle"

Init ==
  /\ sellerType \in Segments
  /\ country \in VALID_COUNTRIES
  /\ sheet \in InitSheets
  /\ wpc = "build"
  /\ nprod = 0
  /\ product = NoProduct
  /\ row_vals = EmptyRowVals
  /\ new_row1 = 0
  /\ next_no = 0
  /\ AFFECTED_COLS_ad = <<ORIGINAL_COL_UNITS_10, ORIGINAL_COL_UNITS_15, ORIGINAL_COL_UNITS_20>>
  /\ additional_run_data = << >>
  /\ noLog = << >>
  /\ hadNo = (\E r \in 1 .. Len(sheet) : ParseInt(sheet[r][COL_NO].v).ok)
  /\ ManualIdle
  /\ RunIdle
  /\ SubmitIdle
  /\ RevIdle
  /\ ProfitIdle
  /\ SegIdle

\* ------------------------------------- write_results_to_country_tabs steps
\* step 1 of the product loop: the row builder
BuildRow ==
  /\ wpc = "build"
  /\ nprod < MaxProducts
  /\ \E p \in Products :
       /\ product' = p
       /\ row_vals' = _build_row_from_product(p, sellerType, country)
       /\ AFFECTED_COLS_ad' = UnitsAffectedCols(sellerType, country)
       /\ next_no' = 0
       /\ new_row1' = 0
  /\ wpc' = "insert"
  /\ UNCHANGED <<sellerType, country, sheet, nprod, additional_run_data, noLog, hadNo>>
  /\ UNCHANGED <<manualVars, runVars, submitVars, revVars, profitVars, segVars>>

\* step 2: _insert_duplicate_of_last_row
InsertDuplicate ==
  /\ wpc = "insert"
  /\ sheet' = _insert_duplicate_of_last_row(sheet).sheet
  /\ new_row1' = _insert_duplicate_of_last_row(sheet).row
  /\ wpc' = "nextno"
  /\ UNCHANGED <<sellerType, country, nprod, product, row_vals, next_no, AFFECTED_COLS_ad,
                 additional_run_data, noLog, hadNo>>
  /\ UNCHANGED <<manualVars, runVars, submitVars, revVars, profitVars, segVars>>

\* step 3: _next_no_value
NextNo ==
  /\ wpc = "nextno"
  /\ next_no' = _next_no_value(sheet)
  /\ wpc' = "write"
  /\ UNCHANGED <<sellerType, country, sheet, nprod, product, row_vals, new_row1,
                 AFFECTED_COLS_ad, additional_run_data, noLog, hadNo>>
  /\ UNCHANGED <<manualVars, runVars, submitVars, revVars, profitVars, segVars>>

\* step 4: _write_partial_cells of the selective overwrites
WritePartial ==
  /\ wpc = "write"
  /\ sheet' = _write_partial_cells(sheet, new_row1, ColToValue(row_vals, next_no))
  /\ noLog' = Append(noLog, next_no)
  /\ wpc' = "format"
  /\ UNCHANGED <<sellerType, country, nprod, product, row_vals, new_row1, next_no,
                 AFFECTED_COLS_ad, additional_run_data, hadNo>>
  /\ UNCHANGED <<manualVars, runVars, submitVars, revVars, profitVars, segVars>>

\* steps 5 and 6: the highlight and the run-data record
FormatAndLog ==
  /\ wpc = "format"
  /\ sheet' = _format_cells_black_bg_white_font(sheet, new_row1 - 1, FILLED_COLS)
  /\ additional_run_data' =
       Append(additional_run_data,
              [row |-> new_row1, country |-> country, keyword |-> product.keyword,
               seller_type |-> sellerType])
  /\ nprod' = nprod + 1
  /\ wpc' = "build"
  /\ UNCHANGED <<sellerType, country, product, row_vals, new_row1, next_no,
                 AFFECTED_COLS_ad, noLog, hadNo>>
  /\ UNCHANGED <<manualVars, runVars, submitVars, revVars, profitVars, segVars>>

\* a remote call of the product loop raises: nothing catches it, the run ends
WriterRemoteFails ==
  /\ wpc \in {"insert", "nextno", "write", "format"}
  /\ wpc' = "aborted"
  /\ UNCHANGED <<sellerType, country, sheet, nprod, product, row_vals, new_row1, next_no,
                 AFFECTED_COLS_ad, additional_run_data, noLog, hadNo>>
  /\ UNCHANGED <<manualVars, runVars, submitVars, revVars, profitVars, segVars>>

\* the product list is exhausted: the run returns additional_run_data
EndRun ==
  /\ wpc = "build"
  /\ wpc' = "done"
  /\ UNCHANGED <<sellerType, country, sheet, nprod, product, row_vals, new_row1, next_no,
                 AFFECTED_COLS_ad, additional_run_data, noLog, hadNo>>
  /\ UNCHANGED <<manualVars, runVars, submitVars, revVars, profitVars, segVars>>

\* ------------------------------------------- process_multiple_manually steps
\* process_manual_csv returns {"success": ok} for the head record
Return(ok) ==
  /\ results' = Append(results, ok)
  /\ runs' = Tail(runs)
  /\ mpc' = "next"
  /\ outer' = 0
  /\ attempt' = 0
  /\ competitor' = NoCompetitor
  /\ mrow' = EmptyRowVals

\* the two competitor cells process_manual_csv and find_competitor_data use
CompetitorCols(seller_type) ==
  IF seller_type # "new_seller"
    THEN <<COL_YOUR_COMPETITOR, COL_COMP_MREV>>
    ELSE <<COL_PRODUCTS + 1, COL_PRODUCTS + 2>>

\* process_manual_csv up to the call of find_competitor_data: validation,
\* the read of the row and the check of the competitor cells
ProcessManualCsv ==
  /\ mpc = "next"
  /\ runs # << >>
  /\ \E readRaises \in BOOLEAN, picked \in Competitors :
       LET run == Head(runs)
           cc == CompetitorCols(run.seller_type)
           competitor_col == IF readRaises THEN Empty ELSE RowAt(sheet, run.row)[cc[1]].v
           comp_mrev_col == IF readRaises THEN Empty ELSE RowAt(sheet, run.row)[cc[2]].v
           competitor_empty == ~(Strip(competitor_col) = Empty)
           comp_mrev_empty == ~(Strip(comp_mrev_col) = Empty)
       IN IF run.row < 3 \/ Strip(run.keyword) = Empty
            THEN Return(FALSE)
          ELSE IF competitor_empty /\ comp_mrev_empty
            THEN /\ mpc' = "fcd"
                 /\ outer' = 1
                 /\ competitor' = picked
                 /\ UNCHANGED <<runs, attempt, mrow, results>>
          ELSE Return(FALSE)
  /\ pmCalls' = 0
  /\ pmFails' = 0
  /\ UNCHANGED <<sellerType, country, sheet, writerVars, runVars, submitVars, revVars, profitVars, segVars>>
  /\ UNCHANGED <<COL_YOUR_PRICE, COL_FBA_FEES, COL_STORAGE_FEES, AFFECTED_COLS_manual,
                 wfails, startCols>>

\* find_competitor_data up to the retry loop: the competitor cells are
\* written; an exception goes to the retry loop of process_manual_csv
FindCompetitorData ==
  /\ mpc = "fcd"
  /\ \E failAt \in 0 .. 5 :
       LET run == Head(runs)
           cc == CompetitorCols(run.seller_type)
           link == IF competitor.url # Empty \/ competitor.product_details # Empty
                     THEN _hyper(competitor.url, competitor.product_details) ELSE Empty
           row == [[EmptyRowVals EXCEPT ![cc[1]] = link] EXCEPT ![cc[2]] = competitor.parent_level_revenue]
           res == fill_in_row_with_new_values_for_country(
                    sheet, row, cc, run.row, run.seller_type, None, failAt)
       IN /\ failAt # 0 => wfails < MaxWriteFails
          /\ wfails' = IF failAt # 0 THEN wfails + 1 ELSE wfails
          /\ sheet' = res.sheet
          /\ IF res.raised
               THEN IF outer = MAX_RETRIES
                      THEN Return(FALSE)
                      ELSE /\ outer' = outer + 1
                           /\ UNCHANGED <<mpc, runs, attempt, competitor, mrow, results>>
             ELSE IF competitor.url # Empty
               THEN /\ mpc' = "pm"
                    /\ attempt' = 1
                    /\ mrow' = row
                    /\ UNCHANGED <<runs, outer, competitor, results>>
             ELSE Return(TRUE)
  /\ UNCHANGED <<sellerType, country, writerVars, runVars, submitVars, revVars, profitVars, segVars>>
  /\ UNCHANGED <<COL_YOUR_PRICE, COL_FBA_FEES, COL_STORAGE_FEES, AFFECTED_COLS_manual,
                 startCols, pmCalls, pmFails>>

\* the except clause of the retry loop of find_competitor_data
AttemptFailed ==
  IF attempt = MAX_RETRIES
    THEN Return(TRUE)
    ELSE /\ attempt' = attempt + 1
         /\ UNCHANGED <<mpc, runs, outer, competitor, results>>

\* one attempt in which get_profitability_metrics (or normalize_currency)
\* raises
ProfitabilityFails ==
  /\ mpc = "pm"
  /\ AttemptFailed
  /\ IF attempt = MAX_RETRIES THEN TRUE ELSE UNCHANGED mrow
  /\ pmCalls' = pmCalls + 1
  /\ pmFails' = pmFails + 1
  /\ UNCHANGED <<sellerType, country, sheet, writerVars, runVars, submitVars, revVars, profitVars, segVars>>
  /\ UNCHANGED <<COL_YOUR_PRICE, COL_FBA_FEES, COL_STORAGE_FEES, AFFECTED_COLS_manual,
                 wfails, startCols>>

\* one attempt in which the metrics are read: columns resolved, module
\* globals reassigned, pricing cells written, globals restored on success
ProfitabilityWrite ==
  /\ mpc = "pm"
  /\ startCols' = <<COL_YOUR_PRICE, COL_FBA_FEES, COL_STORAGE_FEES>>
  /\ pmCalls' = pmCalls + 1
  /\ pmFails' = pmFails
  /\ \E pm \in Metrics, failAt \in 0 .. 7 :
       LET run == Head(runs)
           cols == PricingAffectedCols(<<COL_YOUR_PRICE, COL_FBA_FEES, COL_STORAGE_FEES>>,
                                       run.seller_type, run.country)
           row1 == [mrow EXCEPT ![cols[1]] = pm.text[1]]
           row2 == [row1 EXCEPT ![cols[2]] = pm.text[2]]
           row3 == [row2 EXCEPT ![cols[3]] = pm.text[3]]
           res == fill_in_row_with_new_values_for_country(
                    sheet, row3, cols, run.row, run.seller_type, pm.num, failAt)
       IN /\ failAt # 0 => wfails < MaxWriteFails
          /\ wfails' = IF failAt # 0 THEN wfails + 1 ELSE wfails
          /\ AFFECTED_COLS_manual' = cols
          /\ sheet' = res.sheet
          /\ IF res.raised
               THEN /\ COL_YOUR_PRICE' = cols[1]
                    /\ COL_FBA_FEES' = cols[2]
                    /\ COL_STORAGE_FEES' = cols[3]
                    /\ AttemptFailed
                    /\ IF attempt = MAX_RETRIES THEN TRUE ELSE mrow' = row3
               ELSE /\ COL_YOUR_PRICE' = ORIGINAL_COL_YOUR_PRICE
                    /\ COL_FBA_FEES' = ORIGINAL_COL_FBA_FEES
                    /\ COL_STORAGE_FEES' = ORIGINAL_COL_STORAGE_FEES
                    /\ Return(TRUE)
  /\ UNCHANGED <<sellerType, country, writerVars, runVars, submitVars, revVars, profitVars, segVars>>

\* runs_data is exhausted: close_browser
CloseBrowser ==
  /\ mpc = "next"
  /\ runs = << >>
  /\ mpc' = "closed"
  /\ UNCHANGED <<sellerType, country, sheet, writerVars, runVars, submitVars, revVars, profitVars, segVars>>
  /\ UNCHANGED <<runs, outer, attempt, competitor, mrow, COL_YOUR_PRICE, COL_FBA_FEES,
                 COL_STORAGE_FEES, AFFECTED_COLS_manual, results, wfails, startCols,
                 pmCalls, pmFails>>

\* pd.read_csv of the head record raises: nothing in process_multiple_manually
\* catches it, the loop and close_browser are left
ReadCsvRaises ==
  /\ mpc = "next"
  /\ runs # << >>
  /\ mpc' = "aborted"
  /\ UNCHANGED <<sellerType, country, sheet, writerVars, runVars, submitVars, revVars, profitVars, segVars>>
  /\ UNCHANGED <<runs, outer, attempt, competitor, mrow, COL_YOUR_PRICE, COL_FBA_FEES,
                 COL_STORAGE_FEES, AFFECTED_COLS_manual, results, wfails, startCols,
                 pmCalls, pmFails>>

Next ==
  \/ BuildRow
  \/ InsertDuplicate
  \/ NextNo
  \/ WritePartial
  \/ FormatAndLog
  \/ WriterRemoteFails
  \/ EndRun

\* one run of write_results_to_country_tabs over a country tab
Spec == Init /\ [][Next]_vars

\* runs_data of process_multiple_manually: the rows to fill, none of them
\* among the two header rows
RunsData ==
  UNION {[1 .. n -> {[row |-> r, country |-> country, keyword |-> <<"k1">>,
                      seller_type |-> sellerType] : r \in 3 .. MaxManualRow}]
         : n \in 1 .. MaxRuns}

\* tabs with two header rows and one data row, numbered or not
ManualSheets == {MkSheet(<<<<"No.">>, <<"No.">>, a>>) : a \in {Empty, Str(1)}}

InitManual ==
  /\ sellerType \in Segments
  /\ country \in VALID_COUNTRIES
  /\ sheet \in ManualSheets
  /\ wpc = "done"
  /\ nprod = 0
  /\ product = NoProduct
  /\ row_vals = EmptyRowVals
  /\ new_row1 = 0
  /\ next_no = 0
  /\ AFFECTED_COLS_ad = <<ORIGINAL_COL_UNITS_10, ORIGINAL_COL_UNITS_15, ORIGINAL_COL_UNITS_20>>
  /\ additional_run_data = << >>
  /\ noLog = << >>
  /\ hadNo = (\E r \in 1 .. Len(sheet) : ParseInt(sheet[r][COL_NO].v).ok)
  /\ mpc = "next"
  /\ runs \in RunsData
  /\ outer = 0
  /\ attempt = 0
  /\ competitor = NoCompetitor
  /\ mrow = EmptyRowVals
  /\ COL_YOUR_PRICE = ORIGINAL_COL_YOUR_PRICE
  /\ COL_FBA_FEES = ORIGINAL_COL_FBA_FEES
  /\ COL_STORAGE_FEES = ORIGINAL_COL_STORAGE_FEES
  /\ AFFECTED_COLS_manual = <<ORIGINAL_COL_YOUR_PRICE, ORIGINAL_COL_FBA_FEES, ORIGINAL_COL_STORAGE_FEES>>
  /\ results = << >>
  /\ wfails = 0
  /\ startCols = << >>
  /\ pmCalls = 0
  /\ pmFails = 0
  /\ RunIdle
  /\ SubmitIdle
  /\ RevIdle
  /\ ProfitIdle
  /\ SegIdle

NextManual ==
  \/ ReadCsvRaises
  \/ ProcessManualCsv
  \/ FindCompetitorData
  \/ ProfitabilityFails
  \/ ProfitabilityWrite
  \/ CloseBrowser

\* one call of process_multiple_manually
SpecManual == InitManual /\ [][NextManual]_vars

\* ------------------------------------------- a run over its brand blocks
\* the environment names ad.py reads
EnvNames ==
  {"VENDOR_SPREADSHEET_ID", "EXISTING_SELLER_SPREADSHEET_ID", "NEW_SELLER_SPREADSHEET_ID",
   "GOOGLE_CLIENT_EMAIL", "GOOGLE_PRIVATE_KEY"}

\* SPREADSHEET_ID as lines 449-455 choose it for a brand block
SpreadsheetIdOf(seller_type) ==
  IF seller_type = "vendor" THEN "VENDOR_SPREADSHEET_ID"
  ELSE IF seller_type = "existing_seller" THEN "EXISTING_SELLER_SPREADSHEET_ID"
  ELSE "NEW_SELLER_SPREADSHEET_ID"

\* _sheets_service: TRUE when the service is built, FALSE for the RuntimeError
_sheets_service(e, seller_type) ==
  {SpreadsheetIdOf(seller_type), "GOOGLE_CLIENT_EMAIL", "GOOGLE_PRIVATE_KEY"} \subseteq e

\* the country names of a run; the tabs of the three spreadsheets
RunCountryNames == {"UK", "DE"}
TabKeys == Segments \X RunCountryNames
AbsentTab == [present |-> FALSE, tab |-> << >>]
RunTab == [present |-> TRUE, tab |-> MkSheet(<<<<"No.">>, Str(1)>>)]

\* _get_sheet_id_and_cols: TRUE when a tab of that title is found, FALSE for
\* the ValueError
_get_sheet_id_and_cols(bk, seller_type, title) ==
  <<seller_type, title>> \in DOMAIN bk /\ bk[<<seller_type, title>>].present

InitBooks ==
  {[k \in TabKeys |-> IF k \in a THEN AbsentTab ELSE RunTab] :
     a \in {x \in SUBSET TabKeys : Cardinality(x) <= MaxAbsent}}

InitEnvs == {EnvNames \ m : m \in {x \in SUBSET EnvNames : Cardinality(x) <= MaxMissing}}

\* the i-th product of a country block
ListedProduct(i) ==
  CHOOSE p \in Products : p.keyword = (IF i % 2 = 1 THEN <<"k1">> ELSE <<"k2">>)

ProductLists == {[i \in 1 .. n |-> ListedProduct(i)] : n \in 1 .. MaxProducts}
CountryLists == UNION {[1 .. n -> RunCountryNames \cup {""}] : n \in 1 .. MaxCountries}

\* json_results["runs"]: brand blocks of country blocks of products
RunInputs ==
  UNION {{[b \in 1 .. n |->
            [seller_type |-> st[b],
             countries |-> [k \in 1 .. Len(cs) |-> [name |-> cs[k], products |-> pl]]]]
          : st \in [1 .. n -> Segments], cs \in CountryLists, pl \in ProductLists}
         : n \in 1 .. MaxBlocks}

InitRun ==
  /\ json_results \in RunInputs
  /\ book \in InitBooks
  /\ env \in InitEnvs
  /\ bi = 0
  /\ ci = 0
  /\ pi = 0
  /\ posLog = << >>
  /\ metaFailed = FALSE
  /\ sellerType = "unset"
  /\ country = "unset"
  /\ sheet = << >>
  /\ wpc = "brand"
  /\ nprod = 0
  /\ product = NoProduct
  /\ row_vals = EmptyRowVals
  /\ new_row1 = 0
  /\ next_no = 0
  /\ AFFECTED_COLS_ad = <<ORIGINAL_COL_UNITS_10, ORIGINAL_COL_UNITS_15, ORIGINAL_COL_UNITS_20>>
  /\ additional_run_data = << >>
  /\ noLog = << >>
  /\ hadNo = TRUE
  /\ ManualIdle
  /\ SubmitIdle
  /\ RevIdle
  /\ ProfitIdle
  /\ SegIdle

\* the country blocks of the current brand block and the products of the
\* current country block
CurCountries == json_results[bi].countries
CurProducts == CurCountries[ci].products

\* head of the brand loop: the spreadsheet of the segment is selected and the
\* service is built, or the loop ends and the run returns
RunNextBrand ==
  /\ wpc = "brand"
  /\ IF bi = Len(json_results)
       THEN /\ wpc' = "done"
            /\ UNCHANGED <<sellerType, bi, ci>>
       ELSE /\ bi' = bi + 1
            /\ ci' = 0
            /\ sellerType' = json_results[bi + 1].seller_type
            /\ wpc' = IF _sheets_service(env, json_results[bi + 1].seller_type)
                        THEN "country" ELSE "raised"
  /\ UNCHANGED <<country, sheet, nprod, product, row_vals, new_row1, next_no,
                 AFFECTED_COLS_ad, additional_run_data, noLog, hadNo>>
  /\ UNCHANGED <<json_results, pi, book, env, posLog, metaFailed>>
  /\ UNCHANGED <<manualVars, submitVars, revVars, profitVars, segVars>>

\* RunNextCountry leaving the country loop (break) on a failed lookup
RunNextCountry_Break ==
  /\ \/ wpc = "country"
     \/ wpc = "build" /\ pi = Len(CurProducts)
  /\ LET book1 == IF wpc = "build"
                    THEN [book EXCEPT ![<<sellerType, country>>] = [present |-> TRUE, tab |-> sheet]]
                    ELSE book
     IN /\ book' = book1
        /\ IF ci = Len(CurCountries)
             THEN /\ wpc' = "brand"
                  /\ UNCHANGED <<country, sheet, ci, pi, metaFailed>>
             ELSE LET name == CurCountries[ci + 1].name
                      found == _get_sheet_id_and_cols(book1, sellerType, name)
                  IN /\ ci' = ci + 1
                     /\ country' = name
                     /\ IF name = ""
                          THEN /\ wpc' = "country"
                               /\ UNCHANGED <<sheet, pi, metaFailed>>
                          ELSE \E getRaises \in BOOLEAN :
                                 IF getRaises \/ ~found
                                   THEN /\ wpc' = "brand"
                                        /\ metaFailed' = (metaFailed \/ found)
                                        /\ UNCHANGED <<sheet, pi>>
                                   ELSE /\ wpc' = "build"
                                        /\ sheet' = book1[<<sellerType, name>>].tab
                                        /\ pi' = 0
                                        /\ UNCHANGED metaFailed
  /\ UNCHANGED <<sellerType, nprod, product, row_vals, new_row1, next_no,
                 AFFECTED_COLS_ad, additional_run_data, noLog, hadNo>>
  /\ UNCHANGED <<json_results, bi, env, posLog>>
  /\ UNCHANGED <<manualVars, submitVars, revVars, profitVars, segVars>>

\* head of the country loop, reached from the brand loop or when the
\* products of the previous country block are exhausted: the tab is looked
\* up; a missing name or a failing lookup skips the block.  sheet is the tab
\* being written, book holds every tab as the last block working on it left
\* it.
RunNextCountry ==
  /\ \/ wpc = "country"
     \/ wpc = "build" /\ pi = Len(CurProducts)
  /\ LET book1 == IF wpc = "build"
                    THEN [book EXCEPT ![<<sellerType, country>>] = [present |-> TRUE, tab |-> sheet]]
                    ELSE book
     IN /\ book' = book1
        /\ IF ci = Len(CurCountries)
             THEN /\ wpc' = "brand"
                  /\ UNCHANGED <<country, sheet, ci, pi, metaFailed>>
             ELSE LET name == CurCountries[ci + 1].name
                      found == _get_sheet_id_and_cols(book1, sellerType, name)
                  IN /\ ci' = ci + 1
                     /\ country' = name
                     /\ IF name = ""
                          THEN /\ wpc' = "country"
                               /\ UNCHANGED <<sheet, pi, metaFailed>>
                          ELSE \E getRaises \in BOOLEAN :
                                 IF getRaises \/ ~found
                                   THEN /\ wpc' = "country"
                                        /\ metaFailed' = (metaFailed \/ found)
                                        /\ UNCHANGED <<sheet, pi>>
                                   ELSE /\ wpc' = "build"
                                        /\ sheet' = book1[<<sellerType, name>>].tab
                                        /\ pi' = 0
                                        /\ UNCHANGED metaFailed
  /\ UNCHANGED <<sellerType, nprod, product, row_vals, new_row1, next_no,
                 AFFECTED_COLS_ad, additional_run_data, noLog, hadNo>>
  /\ UNCHANGED <<json_results, bi, env, posLog>>
  /\ UNCHANGED <<manualVars, submitVars, revVars, profitVars, segVars>>

\* RunBuildRow walking the product list from its end
RunBuildRow_Reversed ==
  /\ wpc = "build"
  /\ pi < Len(CurProducts)
  /\ pi' = pi + 1
  /\ product' = CurProducts[Len(CurProducts) - pi]
  /\ row_vals' = _build_row_from_product(CurProducts[Len(CurProducts) - pi], sellerType, country)
  /\ AFFECTED_COLS_ad' = UnitsAffectedCols(sellerType, country)
  /\ next_no' = 0
  /\ new_row1' = 0
  /\ posLog' = Append(posLog, <<bi, ci, pi + 1>>)
  /\ wpc' = "insert"
  /\ UNCHANGED <<sellerType, country, sheet, nprod, additional_run_data, noLog, hadNo>>
  /\ UNCHANGED <<json_results, bi, ci, book, env, metaFailed>>
  /\ UNCHANGED <<manualVars, submitVars, revVars, profitVars, segVars>>

\* head of the product loop: the next product of the country block is built
RunBuildRow ==
  /\ wpc = "build"
  /\ pi < Len(CurProducts)
  /\ pi' = pi + 1
  /\ product' = CurProducts[pi + 1]
  /\ row_vals' = _build_row_from_product(CurProducts[pi + 1], sellerType, country)
  /\ AFFECTED_COLS_ad' = UnitsAffectedCols(sellerType, country)
  /\ next_no' = 0
  /\ new_row1' = 0
  /\ posLog' = Append(posLog, <<bi, ci, pi + 1>>)
  /\ wpc' = "insert"
  /\ UNCHANGED <<sellerType, country, sheet, nprod, additional_run_data, noLog, hadNo>>
  /\ UNCHANGED <<json_results, bi, ci, book, env, metaFailed>>
  /\ UNCHANGED <<manualVars, submitVars, revVars, profitVars, segVars>>

NextRun ==
  \/ RunNextBrand
  \/ RunNextCountry
  \/ RunBuildRow
  \/ InsertDuplicate
  \/ NextNo
  \/ WritePartial
  \/ FormatAndLog
  \/ WriterRemoteFails

\* one call of write_results_to_country_tabs
SpecRun == InitRun /\ [][NextRun]_vars

\* ---------------------------------------------- submission API (main.py)
\* country names as the client sends them, character by character
RawNames == {<<"u", "k">>, <<" ", "U", "S", " ">>, <<"a", "u">>, <<"f", "r">>}

\* str.upper on the letters of RawNames
UpperOf(ch) ==
  CASE ch = "a" -> "A" [] ch = "f" -> "F" [] ch = "k" -> "K"
    [] ch = "r" -> "R" [] ch = "s" -> "S" [] ch = "u" -> "U"
    [] OTHER -> ch
Upper(str) == [i \in 1 .. Len(str) |-> UpperOf(str[i])]

\* the characters of the valid country codes
CodeChars ==
  [c \in VALID_COUNTRIES |->
     CASE c = "US" -> <<"U", "S">> [] c = "UK" -> <<"U", "K">>
       [] c = "CAN" -> <<"C", "A", "N">> [] c = "AUS" -> <<"A", "U", "S">>
       [] c = "DE" -> <<"D", "E">> [] c = "UAE" -> <<"U", "A", "E">>]

normalize_country(country_name) ==
  LET c == Upper(Strip(country_name))
  IN IF c = <<"A", "U">> THEN <<"A", "U", "S">> ELSE c

\* request.brands: each brand is the list of its country names
RequestBrands ==
  {<< >>} \cup {<<cs>> : cs \in UNION {[1 .. n -> RawNames] : n \in 1 .. MaxRequestCountries}}

\* lines 91-114 / 203-228: the countries of a brand that normalize to a
\* valid code, in list order, and the brands that keep at least one
RECURSIVE ValidCountries(_)
ValidCountries(cs) ==
  IF cs = << >> THEN << >>
  ELSE (IF \E v \in VALID_COUNTRIES : CodeChars[v] = normalize_country(Head(cs))
          THEN <<normalize_country(Head(cs))>> ELSE << >>) \o ValidCountries(Tail(cs))

RECURSIVE ScraperPayload(_)
ScraperPayload(brands) ==
  IF brands = << >> THEN << >>
  ELSE (IF ValidCountries(Head(brands)) # << >>
          THEN <<ValidCountries(Head(brands))>> ELSE << >>) \o ScraperPayload(Tail(brands))

\* main_loop.is_scraper_running: a run is in flight
is_scraper_running == running

\* the handler from the parsed request on: st is the response or what
\* became of the job, thread whether a background thread was started for
\* it, temp_files whether its uploaded CSV copies are on disk
Handle(endpoint, brands, enqueued) ==
  LET payload == ScraperPayload(brands)
      job(st, th) == [endpoint |-> endpoint, payload |-> payload, st |-> st, thread |-> th,
                      temp_files |-> (endpoint = "files" /\ st \in {"queued", "started"})]
  IN IF brands = << >> \/ payload = << >>
       THEN /\ subs' = Append(subs, job("http400", FALSE))
            /\ UNCHANGED <<running, queue>>
     ELSE IF is_scraper_running
       THEN IF enqueued
              THEN /\ subs' = Append(subs, job("queued", FALSE))
                   /\ queue' = Append(queue, Len(subs) + 1)
                   /\ UNCHANGED running
              ELSE /\ subs' = Append(subs, job("http500", FALSE))
                   /\ UNCHANGED <<running, queue>>
     ELSE /\ subs' = Append(subs, job("started", TRUE))
          /\ UNCHANGED <<running, queue>>

\* the writer at rest
WriterIdle ==
  /\ sellerType = "unset"
  /\ country = "unset"
  /\ sheet = << >>
  /\ wpc = "done"
  /\ nprod = 0
  /\ product = NoProduct
  /\ row_vals = EmptyRowVals
  /\ new_row1 = 0
  /\ next_no = 0
  /\ AFFECTED_COLS_ad = <<ORIGINAL_COL_UNITS_10, ORIGINAL_COL_UNITS_15, ORIGINAL_COL_UNITS_20>>
  /\ additional_run_data = << >>
  /\ noLog = << >>
  /\ hadNo = TRUE

InitSubmit ==
  /\ subs = << >>
  /\ running = FALSE
  /\ queue = << >>
  /\ WriterIdle
  /\ ManualIdle
  /\ RunIdle
  /\ RevIdle
  /\ ProfitIdle
  /\ SegIdle

\* POST /api/submissions; the handler has no await, it runs as one step of
\* the event loop
CreateSubmission ==
  /\ Len(subs) < MaxSubmissions
  /\ \E brands \in RequestBrands, enqueued \in BOOLEAN :
       Handle("json", brands, enqueued)
  /\ UNCHANGED <<sellerType, country, sheet, writerVars, manualVars, runVars, revVars, profitVars, segVars>>

\* POST /api/submissions-with-files; an error raised before temp_files is
\* assigned (bad JSON, no brands) reaches the except clause that iterates
\* temp_files and leaves the handler as an unhandled exception
CreateSubmissionWithFiles ==
  /\ Len(subs) < MaxSubmissions
  /\ \E parsed \in BOOLEAN, brands \in RequestBrands, enqueued \in BOOLEAN :
       IF ~parsed \/ brands = << >>
         THEN /\ subs' = Append(subs, [endpoint |-> "files", payload |-> << >>, st |-> "http500",
                                       thread |-> FALSE, temp_files |-> FALSE])
              /\ UNCHANGED <<running, queue>>
         ELSE Handle("files", brands, enqueued)
  /\ UNCHANGED <<sellerType, country, sheet, writerVars, manualVars, runVars, revVars, profitVars, segVars>>

\* the background thread of a submission enters run_scraper_main: the run
\* is in flight
RunScraperBegins ==
  /\ \E i \in 1 .. Len(subs) :
       /\ subs[i].st = "started"
       /\ subs' = [subs EXCEPT ![i].st = "running"]
  /\ running' = TRUE
  /\ UNCHANGED queue
  /\ UNCHANGED <<sellerType, country, sheet, writerVars, manualVars, runVars, revVars, profitVars, segVars>>

\* a run ends: the thread's finally clause removes its temp files; the next
\* queued payload is taken, or the scraper is free
RunScraperEnds ==
  /\ \E i \in 1 .. Len(subs) :
       /\ subs[i].st = "running"
       /\ LET done == [subs EXCEPT ![i].st = "finished",
                                   ![i].temp_files = (@ /\ ~subs[i].thread)]
          IN IF queue # << >>
               THEN /\ subs' = [done EXCEPT ![Head(queue)].st = "running"]
                    /\ queue' = Tail(queue)
                    /\ UNCHANGED running
               ELSE /\ subs' = done
                    /\ running' = FALSE
                    /\ UNCHANGED queue
  /\ UNCHANGED <<sellerType, country, sheet, writerVars, manualVars, runVars, revVars, profitVars, segVars>>

NextSubmit ==
  \/ CreateSubmission
  \/ CreateSubmissionWithFiles
  \/ RunScraperBegins
  \/ RunScraperEnds

\* the submission endpoints and the scraper threads they start
SpecSubmit == InitSubmit /\ [][NextSubmit]_vars

\* ------------------------------------- category revenue (getCategoryRev.py)
\* re.sub(r"\s+", " ", s): every run of spaces becomes one space
RECURSIVE Collapse(_)
Collapse(s) ==
  IF Len(s) < 2 THEN s
  ELSE IF s[1] = " " /\ s[2] = " " THEN Collapse(Tail(s))
  ELSE <<s[1]>> \o Collapse(Tail(s))

_clean(s) == Strip(Collapse(s))

\* re.sub of every character outside the set
Keep(s, set) == LET Test(t) == t \in set IN SelectSeq(s, Test)

\* the number of zeros of mult for a K/M/B suffix, in either case
SuffixZeros(ch) ==
  IF ch \in {"K", "k"} THEN 3
  ELSE IF ch \in {"M", "m"} THEN 6
  ELSE 9

RECURSIVE StripZeros(_)
StripZeros(d) == IF Len(d) > 1 /\ d[1] = "0" THEN StripZeros(Tail(d)) ELSE d

\* the decimal numeral that follows d
RECURSIVE Inc(_)
Inc(d) ==
  IF d = << >> THEN <<"1">>
  ELSE LET front == SubSeq(d, 1, Len(d) - 1)
           last == d[Len(d)]
       IN IF last = "9" THEN Append(Inc(front), "0")
          ELSE Append(front, Digits[DigitVal(last) + 2])

\* str(int(round(float(int_part.frac_part) * mult))) on decimal numerals:
\* round() takes a tie to the even integer
RoundScaled(int_part, frac_part, zeros) ==
  LET padded == frac_part \o [i \in 1 .. zeros |-> "0"]
      whole == int_part \o SubSeq(padded, 1, zeros)
      rest == SubSeq(padded, zeros + 1, Len(padded))
      tie == /\ rest # << >>
             /\ rest[1] = "5"
             /\ \A i \in 2 .. Len(rest) : rest[i] = "0"
      up == /\ rest # << >>
            /\ \/ DigitVal(rest[1]) > 5
               \/ rest[1] = "5" /\ ~tie
               \/ tie /\ DigitVal(whole[Len(whole)]) % 2 = 1
  IN StripZeros(IF up THEN Inc(whole) ELSE whole)

_normalize_currency_number(str) ==
  LET s1 == Strip(str)
      suffix_match == s1 # << >> /\ s1[Len(s1)] \in {"K", "M", "B", "k", "m", "b"}
      zeros == IF suffix_match THEN SuffixZeros(s1[Len(s1)]) ELSE 0
      s2 == IF suffix_match THEN Strip(SubSeq(s1, 1, Len(s1) - 1)) ELSE s1
      kept == Keep(s2, DigitSet \cup {".", ",", " ", "'"})
      spaced == [i \in 1 .. Len(kept) |-> IF kept[i] = "'" THEN " " ELSE kept[i]]
      cleaned == Strip(Collapse(spaced))
      seps == {i \in 2 .. (Len(cleaned) - 1) :
                 /\ cleaned[i] \in {".", ","}
                 /\ cleaned[i - 1] \in DigitSet
                 /\ cleaned[i + 1] \in DigitSet}
      last_sep == IF seps = {} THEN 0 ELSE CHOOSE i \in seps : \A j \in seps : j <= i
      int_part == Keep(IF last_sep = 0 THEN cleaned ELSE SubSeq(cleaned, 1, last_sep - 1), DigitSet)
      frac_part == IF last_sep = 0 THEN << >>
                   ELSE Keep(SubSeq(cleaned, last_sep + 1, Len(cleaned)), DigitSet)
  IN RoundScaled(IF int_part = << >> THEN <<"0">> ELSE int_part, frac_part, zeros)

\* the texts the Total Revenue tile can show: a currency symbol, a first
\* group of digits, further groups behind a separator, a K suffix
RECURSIVE Concat(_)
Concat(ss) == IF ss = << >> THEN << >> ELSE Head(ss) \o Concat(Tail(ss))

RevenueTexts ==
  LET Symbols == {<< >>, <<"£">>, <<"€", " ">>}
      FirstGroups == {<<"4">>, <<"6", "0", "5">>}
      Separators == {<<",">>, <<".">>, <<" ">>, <<"'">>, <<" ", " ">>}
      LaterGroups == {<<"6", "0", "7">>, <<"5">>}
      Suffixes == {<< >>, <<"K">>}
      GroupTails ==
        UNION {{Concat(t) : t \in [1 .. n -> {sp \o g : sp \in Separators, g \in LaterGroups}]} :
                 n \in 0 .. MaxGroups}
  IN {<< >>} \cup {sym \o g1 \o t \o suf :
                     sym \in Symbols, g1 \in FirstGroups, t \in GroupTails, suf \in Suffixes}

InitRev ==
  /\ raw \in RevenueTexts
  /\ value_text = << >>
  /\ number_only = << >>
  /\ revenue = << >>
  /\ rpc = "idle"
  /\ events = << >>
  /\ clicked = FALSE
  /\ WriterIdle
  /\ ManualIdle
  /\ RunIdle
  /\ SubmitIdle
  /\ ProfitIdle
  /\ SegIdle

\* _find_xray_page returns an Amazon tab that shows the overlay text
LocateOverlay ==
  /\ rpc = "idle"
  /\ rpc' = "located"
  /\ events' = Append(events, "locate")
  /\ UNCHANGED <<raw, value_text, number_only, revenue, clicked>>
  /\ UNCHANGED <<sellerType, country, sheet, writerVars, manualVars, runVars, submitVars, profitVars, segVars>>

\* get_category_revenue finds no tab that shows the overlay
XrayNotDetected ==
  /\ rpc = "idle"
  /\ rpc' = "raised"
  /\ UNCHANGED <<raw, value_text, number_only, revenue, events, clicked>>
  /\ UNCHANGED <<sellerType, country, sheet, writerVars, manualVars, runVars, submitVars, profitVars, segVars>>

\* the ways through _click_load_more: the clicks it attempts, in order, and
\* what it returns
ClickPaths ==
  LET Fallback(before) ==
        {[attempts |-> before, clicked |-> FALSE],
         [attempts |-> Append(before, "click_dispatch"), clicked |-> TRUE],
         [attempts |-> Append(before, "click_dispatch"), clicked |-> FALSE]}
  IN {[attempts |-> <<"click_normal">>, clicked |-> TRUE],
      [attempts |-> <<"click_normal">>, clicked |-> FALSE],
      [attempts |-> <<"click_normal", "click_programmatic">>, clicked |-> TRUE]}
     \cup Fallback(<< >>)
     \cup Fallback(<<"click_normal">>)
     \cup Fallback(<<"click_normal", "click_programmatic">>)

\* a _click_load_more that clicked nothing ends the run
ClickLoadMore_Fatal ==
  /\ rpc = "located"
  /\ \E path \in ClickPaths :
       /\ events' = events \o path.attempts
       /\ clicked' = path.clicked
       /\ rpc' = IF path.clicked THEN "expanded" ELSE "click_failed"
  /\ UNCHANGED <<raw, value_text, number_only, revenue>>
  /\ UNCHANGED <<sellerType, country, sheet, writerVars, manualVars, runVars, submitVars, profitVars, segVars>>

\* _click_load_more, and the wait of get_category_revenue behind it
ClickLoadMore ==
  /\ rpc = "located"
  /\ \E path \in ClickPaths :
       /\ events' = events \o path.attempts
       /\ clicked' = path.clicked
  /\ rpc' = "expanded"
  /\ UNCHANGED <<raw, value_text, number_only, revenue>>
  /\ UNCHANGED <<sellerType, country, sheet, writerVars, manualVars, runVars, submitVars, profitVars, segVars>>

\* _extract_total_revenue raises: the label does not appear, the located
\* element is visible with an empty text, the label has no handle, or the
\* geometry search finds nothing
ExtractRaises ==
  /\ rpc = "expanded"
  /\ \E cause \in {"label_timeout", "primary_empty", "no_handle", "geometry_null"} :
       /\ cause = "geometry_null" => raw = << >>
       /\ rpc' = IF cause \in {"primary_empty", "geometry_null"} THEN "no_value" ELSE cause
       /\ events' = events \o
            (CASE cause = "label_timeout" -> <<"read_label">>
               [] cause = "primary_empty" -> <<"read_label", "read_primary">>
               [] cause = "no_handle" -> <<"read_label", "read_primary">>
               [] cause = "geometry_null" -> <<"read_label", "read_primary", "read_geometry">>)
  /\ UNCHANGED <<raw, value_text, number_only, revenue, clicked>>
  /\ UNCHANGED <<sellerType, country, sheet, writerVars, manualVars, runVars, submitVars, profitVars, segVars>>

\* _extract_total_revenue: the text comes from the located element or, when
\* that lookup raises, from the geometry search; revenue is the returned pair
ExtractTotalRevenue ==
  /\ rpc = "expanded"
  /\ raw # << >>
  /\ \E geometry \in BOOLEAN :
       events' = events \o (IF geometry THEN <<"read_label", "read_primary", "read_geometry">>
                            ELSE <<"read_label", "read_primary">>)
  /\ value_text' = _clean(raw)
  /\ number_only' = _normalize_currency_number(value_text')
  /\ revenue' = <<value_text', value_text'>>
  /\ rpc' = "extracted"
  /\ UNCHANGED <<raw, clicked>>
  /\ UNCHANGED <<sellerType, country, sheet, writerVars, manualVars, runVars, submitVars, profitVars, segVars>>

\* get_category_revenue unpacks the pair and returns the result
GetCategoryRevenue ==
  /\ rpc = "extracted"
  /\ revenue' = [text |-> revenue[1], number |-> revenue[2]]
  /\ rpc' = "returned"
  /\ UNCHANGED <<raw, value_text, number_only, events, clicked>>
  /\ UNCHANGED <<sellerType, country, sheet, writerVars, manualVars, runVars, submitVars, profitVars, segVars>>

NextRev ==
  \/ LocateOverlay
  \/ XrayNotDetected
  \/ ClickLoadMore
  \/ ExtractRaises
  \/ ExtractTotalRevenue
  \/ GetCategoryRevenue

\* one reading of the Total Revenue tile
SpecRev == InitRev /\ [][NextRev]_vars

\* ------------------------------------------ marketplace code (profitcal.py)
\* a URL is its sequence of tokens: scheme, "://", host labels and dots,
\* ":" and a port, "/" and path segments
AmazonHosts ==
  {<<"amazon", ".", "com">>, <<"amazon", ".", "co", ".", "uk">>,
   <<"amazon", ".", "com", ".", "au">>, <<"amazon", ".", "ca">>,
   <<"amazon", ".", "de">>, <<"amazon", ".", "ae">>}
ProductUrls ==
  LET Schemes == {<<"https", "://">>, <<"http", "://">>, << >>}
      Prefixes == {<< >>, <<"www", ".">>, <<"smile", ".">>}
      OtherHosts == {<<"amazon", ".", "co", ".", "jp">>, <<"localhost">>}
      Ports == {<< >>, <<":", "443">>}
      Paths == {<< >>, <<"/", "dp", "/", "B0">>}
  IN {sc \o pre \o h \o po \o pa :
        sc \in Schemes, pre \in Prefixes, h \in AmazonHosts \cup OtherHosts,
        po \in Ports, pa \in Paths}

\* s up to the first token of set, that token left out
RECURSIVE UpTo(_, _)
UpTo(s, set) ==
  IF s = << >> \/ Head(s) \in set THEN << >> ELSE <<Head(s)>> \o UpTo(Tail(s), set)

\* urlparse(url).netloc: what stands between "://" and the path; empty when
\* the URL has no scheme
Netloc(url) ==
  IF Len(url) >= 2 /\ url[2] = "://"
    THEN UpTo(SubSeq(url, 3, Len(url)), {"/", "?", "#"})
    ELSE << >>

\* netloc.split("."): a sequence of token sequences, one at least
RECURSIVE SplitDot(_)
SplitDot(s) ==
  LET first == UpTo(s, {"."})
  IN IF Len(first) = Len(s) THEN <<first>>
     ELSE <<first>> \o SplitDot(SubSeq(s, Len(first) + 2, Len(s)))

\* the None a Python function returns
NoneCode == <<"None">>

get_marketplace_code(url) ==
  LET parts == SplitDot(Netloc(url))
      tld == parts[Len(parts)]
      region == parts[Len(parts) - 1]
  IN IF Len(parts) < 2 THEN NoneCode
     ELSE IF region = <<"co">> THEN tld
     ELSE IF region = <<"com">> THEN (IF tld # <<"com">> THEN tld ELSE <<"us">>)
     ELSE IF Len(parts) = 3 THEN (IF tld = <<"com">> THEN <<"us">> ELSE tld)
     ELSE NoneCode

InitMarket ==
  /\ product_url \in ProductUrls
  /\ code = << >>
  /\ kpc = "idle"
  /\ pages = 0
  /\ ppc = "idle"
  /\ ptry = 0
  /\ pcalls = 0
  /\ WriterIdle
  /\ ManualIdle
  /\ RunIdle
  /\ SubmitIdle
  /\ RevIdle
  /\ SegIdle

\* code = get_marketplace_code(product_url), profitcal.py:233
GetMarketplaceCode ==
  /\ kpc = "idle"
  /\ code' = get_marketplace_code(product_url)
  /\ kpc' = "coded"
  /\ UNCHANGED <<product_url, pages, ppc, ptry, pcalls>>
  /\ UNCHANGED <<sellerType, country, sheet, writerVars, manualVars, runVars, submitVars, revVars, segVars>>

\* the wait loop of get_profitability_metrics chooses by the code: no wait
\* for 'ae', the calculator fields for 'us', 'uk', 'de', nothing otherwise
WaitByCode ==
  /\ kpc = "coded"
  /\ kpc' = IF code = <<"ae">> THEN "no_wait"
            ELSE IF code \in {<<"us">>, <<"uk">>, <<"de">>} THEN "wait_fields"
            ELSE "no_fields"
  /\ UNCHANGED <<product_url, code, pages, ppc, ptry, pcalls>>
  /\ UNCHANGED <<sellerType, country, sheet, writerVars, manualVars, runVars, submitVars, revVars, segVars>>

NextMarket ==
  \/ GetMarketplaceCode
  \/ WaitByCode

\* the marketplace code of a product URL
SpecMarket == InitMarket /\ [][NextMarket]_vars

\* ------------------------------- the segment of a row (ad.py and manual.py)
\* the values seller_type can have: the three segments, None, another string
SellerTypeValues == Segments \cup {"None", "reseller"}

\* SPREADSHEET_ID as process_manual_csv (513-518) and
\* fill_in_row_with_new_values_for_country (189-194) choose it
ManualSpreadsheetIdOf(seller_type) ==
  IF seller_type = "new_seller" THEN "NEW_SELLER_SPREADSHEET_ID"
  ELSE IF seller_type = "existing_seller" THEN "EXISTING_SELLER_SPREADSHEET_ID"
  ELSE "VENDOR_SPREADSHEET_ID"

InitSegment ==
  /\ sellerType \in SellerTypeValues
  /\ country \in VALID_COUNTRIES
  /\ sheet = << >>
  /\ wpc = "done"
  /\ nprod = 0
  /\ product = NoProduct
  /\ row_vals = EmptyRowVals
  /\ new_row1 = 0
  /\ next_no = 0
  /\ AFFECTED_COLS_ad = <<ORIGINAL_COL_UNITS_10, ORIGINAL_COL_UNITS_15, ORIGINAL_COL_UNITS_20>>
  /\ additional_run_data = << >>
  /\ noLog = << >>
  /\ hadNo = TRUE
  /\ SegIdle
  /\ ManualIdle
  /\ RunIdle
  /\ SubmitIdle
  /\ RevIdle
  /\ ProfitIdle

\* the writer's part for a row: the spreadsheet of the brand block and the
\* row _build_row_from_product lays out
WriterSelects ==
  /\ spc = "idle"
  /\ SPREADSHEET_ID_ad' = SpreadsheetIdOf(sellerType)
  /\ \E p \in Products :
       /\ product' = p
       /\ row_vals' = _build_row_from_product(p, sellerType, country)
  /\ AFFECTED_COLS_ad' = UnitsAffectedCols(sellerType, country)
  /\ spc' = "written"
  /\ UNCHANGED <<SPREADSHEET_ID_manual, comp_cols>>
  /\ UNCHANGED <<sellerType, country, sheet, wpc, nprod, new_row1, next_no,
                 additional_run_data, noLog, hadNo>>
  /\ UNCHANGED <<manualVars, runVars, submitVars, revVars, profitVars>>

\* the filler's part for the same row, first half: process_manual_csv and
\* find_competitor_data choose the spreadsheet and the competitor cells
FillerSelectsCompetitor ==
  /\ spc = "written"
  /\ SPREADSHEET_ID_manual' = ManualSpreadsheetIdOf(sellerType)
  /\ comp_cols' = CompetitorCols(sellerType)
  /\ spc' = "competitor"
  /\ UNCHANGED SPREADSHEET_ID_ad
  /\ UNCHANGED <<sellerType, country, sheet, writerVars, manualVars, runVars, submitVars,
                 revVars, profitVars>>

\* second half: the pricing cells of find_competitor_data
FillerSelectsPricing ==
  /\ spc = "competitor"
  /\ SPREADSHEET_ID_manual' = ManualSpreadsheetIdOf(sellerType)
  /\ AFFECTED_COLS_manual' =
       PricingAffectedCols(<<COL_YOUR_PRICE, COL_FBA_FEES, COL_STORAGE_FEES>>, sellerType, country)
  /\ spc' = "filled"
  /\ UNCHANGED <<SPREADSHEET_ID_ad, comp_cols>>
  /\ UNCHANGED <<mpc, runs, outer, attempt, competitor, mrow, COL_YOUR_PRICE, COL_FBA_FEES,
                 COL_STORAGE_FEES, results, wfails, startCols, pmCalls, pmFails>>
  /\ UNCHANGED <<sellerType, country, sheet, writerVars, runVars, submitVars, revVars,
                 profitVars>>

NextSegment ==
  \/ WriterSelects
  \/ FillerSelectsCompetitor
  \/ FillerSelectsPricing

\* one row from the writer to the competitor filler
SpecSegment == InitSegment /\ [][NextSegment]_vars

\* ----------------------------------- browser pages (profitcal.py, manual.py)
InitPages ==
  /\ pages \in 0 .. MaxInitPages
  /\ ppc = "call"
  /\ ptry = 1
  /\ pcalls = 1
  /\ product_url = << >>
  /\ code = << >>
  /\ kpc = "idle"
  /\ WriterIdle
  /\ ManualIdle
  /\ RunIdle
  /\ SubmitIdle
  /\ RevIdle
  /\ SegIdle

\* the except clause of the retry loop of find_competitor_data, manual.py
\* 473-477: the next attempt, or the end of the lookup after MAX_RETRIES; a
\* finished lookup is followed by the next one of the batch
NextLookup ==
  IF pcalls < MaxCalls
    THEN /\ pcalls' = pcalls + 1
         /\ ptry' = 1
         /\ ppc' = "call"
    ELSE /\ ppc' = "end"
         /\ UNCHANGED <<pcalls, ptry>>

PageAttemptFailed ==
  IF ptry = MAX_RETRIES
    THEN NextLookup
    ELSE /\ ptry' = ptry + 1
         /\ ppc' = "call"
         /\ UNCHANGED pcalls

\* get_profitability_metrics, close_all_tabs_first = False: ctx.new_page()
NewPage ==
  /\ ppc = "call"
  /\ pages' = pages + 1
  /\ ppc' = "goto"
  /\ UNCHANGED <<ptry, pcalls, product_url, code, kpc>>
  /\ UNCHANGED <<sellerType, country, sheet, writerVars, manualVars, runVars, submitVars,
                 revVars, segVars>>

\* page.goto or bring_to_front raises: the page stays open, the attempt fails
GotoFails ==
  /\ ppc = "goto"
  /\ PageAttemptFailed
  /\ UNCHANGED <<pages, product_url, code, kpc>>
  /\ UNCHANGED <<sellerType, country, sheet, writerVars, manualVars, runVars, submitVars,
                 revVars, segVars>>

\* the product page is loaded; close_others_after_open = True: _close_others
CloseOthers ==
  /\ ppc = "goto"
  /\ pages' = 1
  /\ ppc' = "isolated"
  /\ UNCHANGED <<ptry, pcalls, product_url, code, kpc>>
  /\ UNCHANGED <<sellerType, country, sheet, writerVars, manualVars, runVars, submitVars,
                 revVars, segVars>>

\* the calculator is not opened or a field is not read: the attempt fails
MetricsFail ==
  /\ ppc = "isolated"
  /\ PageAttemptFailed
  /\ UNCHANGED <<pages, product_url, code, kpc>>
  /\ UNCHANGED <<sellerType, country, sheet, writerVars, manualVars, runVars, submitVars,
                 revVars, segVars>>

\* the metrics are returned and written: find_competitor_data returns
MetricsReturned ==
  /\ ppc = "isolated"
  /\ NextLookup
  /\ UNCHANGED <<pages, product_url, code, kpc>>
  /\ UNCHANGED <<sellerType, country, sheet, writerVars, manualVars, runVars, submitVars,
                 revVars, segVars>>

NextPages ==
  \/ NewPage
  \/ GotoFails
  \/ CloseOthers
  \/ MetricsFail
  \/ MetricsReturned

\* the open pages over the competitor lookups of a batch
SpecPages == InitPages /\ [][NextPages]_vars

\* ================================================================= claims
BasePricing == <<ORIGINAL_COL_YOUR_PRICE, ORIGINAL_COL_FBA_FEES, ORIGINAL_COL_STORAGE_FEES>>
Pricing == <<COL_YOUR_PRICE, COL_FBA_FEES, COL_STORAGE_FEES>>
RowBuilt == wpc \in {"insert", "nextno", "write", "format"}

\* the shift of the projected-units columns the rule table gives
UnitsDelta ==
  CASE sellerType = "vendor" -> (IF country \in {"US", "CAN"} THEN 2 ELSE 3)
    [] sellerType = "existing_seller" -> (IF country \in {"US", "CAN", "AUS"} THEN 0 ELSE 1)
    [] sellerType = "new_seller" -> (IF country \in {"US", "CAN", "AUS"} THEN 0 - 2 ELSE 0 - 1)

\* C1: once _build_row_from_product has built a row, the three units columns
\* are 18, 22 and 26 moved by the one delta of the (segment, country) pair
\* (vendor +3/+2, existing seller +1/0, new seller -1/-2), and the row holds
\* no unit count outside these three columns.
C1_UnitsShiftTogether ==
  RowBuilt =>
    /\ {AFFECTED_COLS_ad[i] : i \in 1 .. 3} = {18 + UnitsDelta, 22 + UnitsDelta, 26 + UnitsDelta}
    /\ \A c \in Cols : (c > COL_MONTHLY_MARKETCAP_1 /\ row_vals[c] # Empty)
                          => c \in {18 + UnitsDelta, 22 + UnitsDelta, 26 + UnitsDelta}
    /\ (sellerType # "new_seller" /\ product.base # << >>) => row_vals[22 + UnitsDelta] # Empty

C1_Witness ==
  /\ wpc = "insert"
  /\ sellerType = "vendor"
  /\ country = "UK"
  /\ AFFECTED_COLS_ad = <<21, 25, 29>>
  /\ row_vals[25] = <<"9", "6">>

\* the pricing columns the rule table gives for a call that starts at 9/11/13
PricingTable ==
  CASE sellerType = "existing_seller" ->
         (IF country \in {"US", "CAN", "AUS"} THEN <<9, 11, 13>> ELSE <<9, 12, 14>>)
    [] sellerType = "vendor" ->
         (IF country \in {"US", "CAN"} THEN <<9, 13, 15>> ELSE <<9, 11, 16>>)
    [] sellerType = "new_seller" ->
         (IF country \in {"US", "CAN", "AUS"} THEN <<7, 9, 11>> ELSE <<7, 10, 12>>)

\* C2: when find_competitor_data resolves the pricing columns with the
\* module offsets at 9, 11, 13, the (price, FBA fee, storage fee) columns
\* used for the write are the ones of the rule table.
C2_PricingColumnsFirstCall ==
  startCols = BasePricing => AFFECTED_COLS_manual = PricingTable

C2_Witness ==
  /\ startCols = BasePricing
  /\ sellerType = "vendor"
  /\ country = "UK"
  /\ AFFECTED_COLS_manual = <<9, 11, 16>>
  /\ RowAt(sheet, 3)[16].v = <<"st">>

\* C3: at the start of every attempt of find_competitor_data the pricing
\* offsets COL_YOUR_PRICE, COL_FBA_FEES, COL_STORAGE_FEES are 9, 11, 13.
C3_OffsetsRestored ==
  mpc = "pm" => Pricing = BasePricing

\* C4 as stated: the three pricing columns resolved from 9, 11, 13 are moved
\* by one common delta.
C4_CommonDelta ==
  startCols = BasePricing =>
    \E d \in (0 - 3) .. 3 : AFFECTED_COLS_manual = <<9 + d, 11 + d, 13 + d>>

\* C4: the three pricing columns are moved from the offsets the attempt
\* started with by one common delta exactly for the existing-seller and
\* new-seller segments in US, CAN and AUS; for these two segments the FBA
\* fee and storage fee columns always move by the same delta.
C4_CommonDeltaOnlyUsCanAus ==
  startCols # << >> =>
    LET d == [i \in 1 .. 3 |-> AFFECTED_COLS_manual[i] - startCols[i]]
    IN /\ (d[1] = d[2] /\ d[2] = d[3])
            <=> (sellerType # "vendor" /\ country \in {"US", "CAN", "AUS"})
       /\ sellerType # "vendor" => d[2] = d[3]

C4_Witness ==
  /\ startCols = BasePricing
  /\ sellerType = "existing_seller"
  /\ country = "DE"
  /\ AFFECTED_COLS_manual = <<9, 12, 14>>

\* the row a fill of SpecManual targets and the columns it is given
TargetRow == Head(runs).row
SuppliedCols ==
  IF mpc = "fcd"
    THEN {CompetitorCols(sellerType)[1], CompetitorCols(sellerType)[2]}
    ELSE {AFFECTED_COLS_manual'[i] : i \in 1 .. 3}

\* the fill of this step returned without an exception
FillReturned ==
  /\ wfails' = wfails
  /\ outer' # outer + 1
  /\ results' # Append(results, FALSE)
  /\ mpc = "pm" => attempt' # attempt + 1

\* C5: a call of fill_in_row_with_new_values_for_country that returns
\* changes the value of no cell outside the target row and of no cell of the
\* target row outside the supplied columns.
C5_OnlySuppliedCellsChange ==
  [][ FillReturned =>
        \A r \in 1 .. Len(sheet') : \A c \in Cols :
           RowAt(sheet, r)[c].v # RowAt(sheet', r)[c].v
             => (runs # << >> /\ r = TargetRow /\ c \in SuppliedCols) ]_vars

\* C6: when the competitor revenue handed to the cell writer for a row with
\* column A filled is the empty string and no remote call fails, the writer
\* raises nothing, leaves the revenue cell as it was and still writes the
\* competitor link.
C6_EmptyValueSkipped ==
  [][ (/\ mpc = "fcd"
       /\ competitor.parent_level_revenue = Empty
       /\ RowAt(sheet, TargetRow)[COL_NO].v # Empty
       /\ wfails' = wfails) =>
        /\ outer' # outer + 1
        /\ results' # Append(results, FALSE)
        /\ RowAt(sheet', TargetRow)[CompetitorCols(sellerType)[2]].v
             = RowAt(sheet, TargetRow)[CompetitorCols(sellerType)[2]].v
        /\ RowAt(sheet', TargetRow)[CompetitorCols(sellerType)[1]].v
             = _hyper(competitor.url, competitor.product_details) ]_vars

IntRows == {r \in 1 .. Len(sheet) : ParseInt(sheet[r][COL_NO].v).ok}
BottomInt == ParseInt(sheet[CHOOSE r \in IntRows : \A q \in IntRows : q <= r][COL_NO].v).val

C9_SequenceByOne ==
  /\ \A i \in 2 .. Len(noLog) : noLog[i] = noLog[i - 1] + 1
  /\ (noLog # << >> /\ ~hadNo) => noLog[1] = 1
  /\ wpc = "format" => sheet[new_row1][COL_NO].v = Str(noLog[Len(noLog)])

C9_Witness ==
  /\ ~hadNo
  /\ noLog = <<1, 2>>
  /\ wpc = "format"
  /\ sheet[new_row1][COL_NO].v = <<"2">>

NewSellerCase ==
  /\ sellerType = "new_seller"
  /\ country \notin {"US", "CAN", "AUS"}
  /\ product.low # << >> /\ product.base # << >> /\ product.high # << >>

\* C10 as stated: for a new seller outside US, CAN, AUS the built row holds
\* the low, base and high counts, as strings, at 17, 21 and 25.
C10_UnitsPopulated ==
  (RowBuilt /\ NewSellerCase) =>
    /\ row_vals[ORIGINAL_COL_UNITS_20 - 1] = Str(product.low[1])
    /\ row_vals[ORIGINAL_COL_UNITS_15 - 1] = Str(product.base[1])
    /\ row_vals[ORIGINAL_COL_UNITS_10 - 1] = Str(product.high[1])

\* C10: for a new seller outside US, CAN, AUS the built row is empty at the
\* three units columns 17, 21 and 25 whatever the projection counts, and
\* the ledger row written for it keeps in these columns what the duplicated
\* last row holds.
C10_UnitsLeftEmpty ==
  (RowBuilt /\ NewSellerCase) =>
    /\ \A c \in {ORIGINAL_COL_UNITS_20 - 1, ORIGINAL_COL_UNITS_15 - 1, ORIGINAL_COL_UNITS_10 - 1} :
         /\ row_vals[c] = Empty
         /\ (wpc = "format" /\ new_row1 > 1) => sheet[new_row1][c].v = sheet[new_row1 - 1][c].v
         /\ (wpc = "format" /\ new_row1 = 1) => sheet[new_row1][c].v = Empty

C10_Witness ==
  /\ wpc = "format"
  /\ NewSellerCase
  /\ country = "UK"
  /\ product.low = <<63>>
  /\ new_row1 = 2
  /\ sheet[2][17].v = <<"old", "1">>
  /\ sheet[2][COL_PRODUCTS].v # sheet[1][COL_PRODUCTS].v

\* C11: once write_results_to_country_tabs has written the ledger row of a
\* new-seller product, the current-monthly-revenue cell (column 3) of that
\* row is empty, whatever the last filled row of the tab held there.
C11_CurrentMrevEmpty ==
  (wpc = "format" /\ sellerType = "new_seller") =>
    sheet[new_row1][COL_CURRENT_MREV].v = Empty

\* C12: in one call of process_manual_csv whose picked competitor has a URL
\* and in which every call of get_profitability_metrics fails, the extraction
\* is called exactly MAX_RETRIES = 8 times before the call returns, and the
\* nested retry loops never call it more than 8 times.
C12_ExactlyEightCalls ==
  [][ /\ pmCalls' <= MAX_RETRIES
      /\ (/\ mpc # "next"
          /\ mpc' = "next"
          /\ competitor.url # Empty
          /\ pmFails' = pmCalls') => pmCalls' = MAX_RETRIES ]_vars

\* C13: when all MAX_RETRIES attempts of the profitability extraction of a
\* lookup have failed, process_manual_csv returns success = False.
C13_FailureSurfaced ==
  [][ (mpc = "pm" /\ mpc' = "next" /\ pmFails' = MAX_RETRIES)
        => results' = Append(results, FALSE) ]_vars

\* C14: process_multiple_manually ends with every entry of runs_data
\* processed: when it closes the browser no entry is left, and a failure on
\* one entry leaves no entry after it unprocessed.
C14_EveryEntryProcessed ==
  /\ mpc = "closed" => runs = << >>
  /\ mpc = "aborted" => Len(runs) <= 1

\* positions <<brand block, country block, product>> of json_results
PosSeller(pos) == json_results[pos[1]].seller_type
PosName(pos) == json_results[pos[1]].countries[pos[2]].name
PosProduct(pos) == json_results[pos[1]].countries[pos[2]].products[pos[3]]
Positions ==
  {<<b, c, q>> \in (1 .. MaxBlocks + 1) \X (1 .. MaxCountries + 1) \X (1 .. MaxProducts + 1) :
     /\ b <= Len(json_results)
     /\ c <= Len(json_results[b].countries)
     /\ q <= Len(json_results[b].countries[c].products)}
Before(a, b) ==
  \/ a[1] < b[1]
  \/ a[1] = b[1] /\ a[2] < b[2]
  \/ a[1] = b[1] /\ a[2] = b[2] /\ a[3] < b[3]
TabPresent(pos) == PosName(pos) # "" /\ book[<<PosSeller(pos), PosName(pos)>>].present
Started == {posLog[i] : i \in 1 .. Len(posLog)}

\* the tab of a spreadsheet as it is now
TabNow(k) ==
  IF k = <<sellerType, country>> /\ wpc \notin {"brand", "country", "done", "raised"}
    THEN sheet ELSE book[k].tab

\* C15: no product of a country whose tab is absent is ever built, inserted
\* or written; the run is left early only by a failure inside the product
\* loop; and a run that returns without a failed lookup of an existing tab
\* has written every product of every country block whose tab exists, those
\* after an absent tab included.
C15_AbsentTabSkipped ==
  /\ \A i \in 1 .. Len(posLog) : TabPresent(posLog[i])
  /\ \A k \in DOMAIN book : ~book[k].present => book[k] = AbsentTab
  /\ wpc = "aborted" => Len(posLog) = Len(additional_run_data) + 1
  /\ (wpc = "done" /\ ~metaFailed) =>
       /\ Len(additional_run_data) = Len(posLog)
       /\ \A pos \in Positions : TabPresent(pos) => pos \in Started

C15_Witness ==
  /\ wpc = "done"
  /\ ~metaFailed
  /\ Len(json_results) = 2
  /\ PosName(<<1, 1, 1>>) = "UK"
  /\ ~book[<<PosSeller(<<1, 1, 1>>), "UK">>].present
  /\ posLog = <<<<1, 2, 1>>, <<1, 2, 2>>, <<2, 2, 1>>, <<2, 2, 2>>>>
  /\ Len(additional_run_data) = 4

\* C16: when write_results_to_country_tabs raises the configuration error,
\* no row has been inserted or written for any brand block of the run.
C16_ConfigErrorBeforeAnyRow ==
  wpc = "raised" => (posLog = << >> /\ additional_run_data = << >>)

\* C18: products are taken in list order (brand blocks, then countries, then
\* products), each logged entry is the product of its position, the rows of
\* two products written to the same tab are in the order of the products,
\* and each written row still holds its product.
C18_RowsInSubmissionOrder ==
  /\ \A i \in 1 .. Len(posLog) : \A j \in 1 .. Len(posLog) :
       i < j => Before(posLog[i], posLog[j])
  /\ \A i \in 1 .. Len(posLog) :
       posLog[i][3] > 1 => (i > 1 /\ posLog[i - 1] = <<posLog[i][1], posLog[i][2], posLog[i][3] - 1>>)
  /\ Len(additional_run_data) <= Len(posLog)
  /\ \A i \in 1 .. Len(additional_run_data) :
       LET e == additional_run_data[i]
       IN /\ e.seller_type = PosSeller(posLog[i])
          /\ e.country = PosName(posLog[i])
          /\ e.keyword = PosProduct(posLog[i]).keyword
          /\ TabNow(<<e.seller_type, e.country>>)[e.row][COL_PRODUCTS].v
               = _build_row_from_product(PosProduct(posLog[i]), e.seller_type, e.country)[COL_PRODUCTS]
          /\ \A j \in 1 .. Len(additional_run_data) :
               (i < j /\ additional_run_data[j].seller_type = e.seller_type
                      /\ additional_run_data[j].country = e.country)
                 => e.row < additional_run_data[j].row

C18_Witness ==
  /\ wpc = "done"
  /\ Len(json_results) = 2
  /\ Len(additional_run_data) = 4
  /\ [i \in 1 .. 4 |-> additional_run_data[i].row] = <<3, 4, 5, 6>>
  /\ [i \in 1 .. 4 |-> additional_run_data[i].keyword] = <<<<"k1">>, <<"k2">>, <<"k1">>, <<"k2">>>>
  /\ additional_run_data[1].country = "UK"
  /\ additional_run_data[4].country = "UK"

\* C17: at most one scraper run executes at a time, and while a submission
\* accepted for immediate execution has not finished no second background
\* thread is started: every later submission is enqueued.
C17_OneRunAtATime ==
  /\ Cardinality({i \in 1 .. Len(subs) : subs[i].st = "running"}) <= 1
  /\ Cardinality({i \in 1 .. Len(subs) :
                    subs[i].thread /\ subs[i].st \in {"started", "running"}}) <= 1

\* a text whose separators (comma, dot or space) are each followed by a group
\* of exactly three digits, with no suffix
ThousandsGrouped(t) ==
  LET b == Strip(Keep(t, DigitSet \cup {",", ".", " "}))
      sepAt == {i \in 1 .. Len(b) : b[i] \notin DigitSet}
  IN /\ Keep(t, {"K", "k", "M", "m", "B", "b", "'"}) = << >>
     /\ sepAt # {}
     /\ b[1] \in DigitSet
     /\ \A i \in sepAt :
          /\ i + 3 <= Len(b)
          /\ \A j \in (i + 1) .. (i + 3) : b[j] \in DigitSet
          /\ (i + 4 <= Len(b) => b[i + 4] \notin DigitSet)

\* C19: _normalize_currency_number takes a comma, dot or space in front of a
\* group of exactly three digits as a thousands separator: the result is the
\* digits of the text ('605607' for '£605,607', '€605.607' and '605 607',
\* '4768718' for '4,768,718').
C19_ThousandsSeparator ==
  (rpc = "extracted" /\ ThousandsGrouped(value_text))
    => number_only = StripZeros(Keep(value_text, DigitSet))

\* C20: the 'number' field of the result of get_category_revenue equals
\* _normalize_currency_number applied to its 'text' field.
C20_NumberIsNormalizedText ==
  rpc = "returned" => revenue.number = _normalize_currency_number(revenue.text)

ClickEvents == {"click_normal", "click_programmatic", "click_dispatch"}
ReadEvents == {"read_label", "read_primary", "read_geometry"}
ValueStrategies == {"read_primary", "read_geometry"}

\* clicks and reads come after the locate, reads after the clicks
C21_Order ==
  /\ \A i \in 1 .. Len(events) :
       events[i] \in ClickEvents \cup ReadEvents
         => \E j \in 1 .. (i - 1) : events[j] = "locate"
  /\ \A i \in 1 .. Len(events) :
       events[i] \in ReadEvents
         => \A j \in 1 .. Len(events) : events[j] \in ClickEvents => j < i
  /\ rpc = "raised" => events = << >>

\* C21: get_category_revenue goes LocateOverlay -> ExpandResults ->
\* ReadAggregate: every click and every read comes after the overlay page was
\* located, a run that found no overlay page has clicked and read nothing,
\* and a _click_load_more that clicked nothing still leads to the read of the
\* aggregate.
C21_LocateExpandRead ==
  /\ []C21_Order
  /\ [][/\ rpc = "located" => rpc' = "expanded"
        /\ rpc = "expanded" => events'[Len(events')] \in ReadEvents]_vars

\* every Load More strategy failed and the aggregate was read all the same
C21_Witness ==
  /\ rpc = "returned"
  /\ ~clicked
  /\ \E i \in 1 .. Len(events) : events[i] = "click_dispatch"
  /\ \E i \in 1 .. Len(events) : events[i] \in ReadEvents

\* C22: when _extract_total_revenue raises for want of a value, every
\* strategy of the chain was attempted before; and a returned result never
\* has an empty text or a zero in place of the value.
C22_ChainExhaustedBeforeRaise ==
  /\ rpc = "no_value" => \A e \in ValueStrategies : \E i \in 1 .. Len(events) : events[i] = e
  /\ rpc = "returned" => (revenue.text # << >> /\ (revenue.number = <<"0">> => revenue.text = <<"0">>))

\* C23: process_manual_csv starts the competitor lookup for a row only when
\* both competitor cells of that row are empty.
C23_LookupOnlyWhenEmpty ==
  [][(mpc = "next" /\ mpc' = "fcd")
       => LET run == Head(runs)
              cc == CompetitorCols(run.seller_type)
          IN /\ Strip(RowAt(sheet, run.row)[cc[1]].v) = Empty
             /\ Strip(RowAt(sheet, run.row)[cc[2]].v) = Empty]_vars

\* C24: when the highlight of a product row has been applied, the cells of
\* the row that carry the black-background/white-font highlight are the cells
\* the writer filled for that row.
C24_HighlightEqualsFilled ==
  [][(wpc = "format" /\ wpc' = "build")
       => {c \in Cols : sheet'[new_row1][c].hl} = DOMAIN ColToValue(row_vals, next_no)]_vars

\* the code of each supported Amazon host
CodeOfHost ==
  [h \in AmazonHosts |->
     CASE h = <<"amazon", ".", "com">> -> <<"us">>
       [] h = <<"amazon", ".", "co", ".", "uk">> -> <<"uk">>
       [] h = <<"amazon", ".", "com", ".", "au">> -> <<"au">>
       [] h = <<"amazon", ".", "ca">> -> <<"ca">>
       [] h = <<"amazon", ".", "de">> -> <<"de">>
       [] h = <<"amazon", ".", "ae">> -> <<"ae">>]

\* C25: for a URL on a supported Amazon host, with or without the "www."
\* prefix, get_marketplace_code returns the host's 2-letter code (us, uk, au,
\* ca, de, ae) and never None.
C25_CodeOfSupportedHost ==
  \A h \in AmazonHosts, pre \in {<< >>, <<"www", ".">>} :
    (kpc # "idle" /\ Netloc(product_url) = pre \o h) => code = CodeOfHost[h]

\* C26: for the existing_seller and vendor segments the built row holds the
\* low unit count at column 18 + delta, the base count at 22 + delta and the
\* high count at 26 + delta, delta being the shift of the segment and country.
C26_UnitsInOwnColumn ==
  (RowBuilt /\ sellerType \in {"existing_seller", "vendor"})
    => /\ row_vals[18 + UnitsDelta] = UnitStr(product.low)
       /\ row_vals[22 + UnitsDelta] = UnitStr(product.base)
       /\ row_vals[26 + UnitsDelta] = UnitStr(product.high)

IdOfSegment(seg) ==
  CASE seg = "vendor" -> "VENDOR_SPREADSHEET_ID"
    [] seg = "existing_seller" -> "EXISTING_SELLER_SPREADSHEET_ID"
    [] seg = "new_seller" -> "NEW_SELLER_SPREADSHEET_ID"

\* C27: for every seller_type value, None and unknown strings included, the
\* row writer and the competitor filler use one and the same segment for a
\* row: the same spreadsheet and that segment's column layout.
C27_SameSegment ==
  spc = "filled" =>
    \E seg \in Segments :
      /\ SPREADSHEET_ID_ad = IdOfSegment(seg)
      /\ SPREADSHEET_ID_manual = IdOfSegment(seg)
      /\ AFFECTED_COLS_ad = UnitsAffectedCols(seg, country)
      /\ comp_cols = CompetitorCols(seg)
      /\ AFFECTED_COLS_manual = PricingAffectedCols(BasePricing, seg, country)

\* C28: when write_results_to_country_tabs has returned or a remote call of
\* it has raised, no two data rows of the tab carry the same 'No.' value.
C28_NoDuplicateNo ==
  wpc \in {"done", "aborted", "raised"} =>
    \A r1, r2 \in 1 .. Len(sheet) :
      (/\ r1 < r2
       /\ ParseInt(sheet[r1][COL_NO].v).ok
       /\ ParseInt(sheet[r2][COL_NO].v).ok)
        => ParseInt(sheet[r1][COL_NO].v).val # ParseInt(sheet[r2][COL_NO].v).val

\* C29: a run that returns has one record per product of every country
\* block it entered, in processing order, and at return the row at the
\* recorded position of the recorded tab still holds the sequence number and
\* every value written for that product.
C29_RecordsStayValid ==
  wpc = "done" =>
    /\ Len(additional_run_data) = Len(posLog)
    /\ Cardinality(Started) = Len(posLog)
    /\ \A pos \in Positions :
         <<pos[1], pos[2], 1>> \in Started => pos \in Started
    /\ \A i \in 1 .. Len(additional_run_data) :
         LET e == additional_run_data[i]
             built == _build_row_from_product(PosProduct(posLog[i]), e.seller_type, e.country)
             tab == book[<<e.seller_type, e.country>>].tab
         IN /\ e.keyword = PosProduct(posLog[i]).keyword
            /\ e.row <= Len(tab)
            /\ tab[e.row][COL_NO].v = Str(noLog[i])
            /\ \A c \in Cols : (c # COL_NO /\ built[c] # Empty) => tab[e.row][c].v = built[c]

\* two blocks wrote to the same tab: the rows of the first block were written
\* before the insertions of the second
C29_Witness ==
  /\ wpc = "done"
  /\ Len(json_results) = 2
  /\ Len(additional_run_data) >= 3
  /\ additional_run_data[1].seller_type = additional_run_data[Len(additional_run_data)].seller_type
  /\ additional_run_data[1].country = additional_run_data[Len(additional_run_data)].country
  /\ additional_run_data[1].row < additional_run_data[Len(additional_run_data)].row

\* C30: with close_others_after_open = True, once a call of
\* get_profitability_metrics has passed its close-others step exactly one
\* page is open, and at no time, failed retry attempts included, are more
\* than two pages open.
C30_PagesBounded ==
  /\ ppc = "isolated" => pages = 1
  /\ pages <= 2

====
